---- MODULE Spec2Model ----
(***************************************************************************)
(* Model of the hunk selection and patch assembly engine of                *)
(* skills/prepare-changesets/scripts/patch_apply.py, and of the branch     *)
(* chain commands of chain.py and propagate.py that run on top of it.      *)
(*                                                                         *)
(* Text is modelled at character level: a str is a sequence of             *)
(* one-character strings, a list of str is a sequence of such sequences.   *)
(* An Optional[str] is either a character sequence or the value None       *)
(* below, which no character sequence equals.  An Optional[int] is <<>>    *)
(* (None) or <<n>>.                                                        *)
(***************************************************************************)
EXTENDS Integers, Sequences, FiniteSets, TLC

VARIABLES
    diff_text,            \* the diff text handed to parse_unified_diff
    raw_selectors,        \* the changeset's "hunk_selectors" (list of dicts)
    include_paths,        \* the changeset's "include_paths"
    exclude_paths,        \* the changeset's "exclude_paths"
    allow_partial_files,  \* the changeset's "allow_partial_files"
    pc,                   \* "ready", "validated" after strict validation, "done" once resolved
    selectors,            \* the HunkSelector list parse_hunk_selectors returned
    diff_files,           \* the DiffFile list parse_unified_diff returned
    outcome,              \* what select_hunks_for_changeset returned or raised
    validation,           \* the errors and warnings lists of validate_plan_strict
    repo,                 \* the git repository the chain commands run in
    cmd                   \* the chain command that ran last and how it ended

vars == <<diff_text, raw_selectors, include_paths, exclude_paths,
          allow_partial_files, pc, selectors, diff_files, outcome, validation,
          repo, cmd>>

----------------------------------------------------------------------------
(* Python values and str methods *)

None == <<"None">>

NoneInt == <<>>

Truthy(s) == s # None /\ s # <<>>

NL == "\n"

IsSpace(c) == c \in {" ", "\t", "\n", "\r"}

StartsWith(s, p) == Len(s) >= Len(p) /\ SubSeq(s, 1, Len(p)) = p

\* c in text
Contains(text, c) ==
    \E i \in 0..(Len(text) - Len(c)) : SubSeq(text, i + 1, i + Len(c)) = c

RECURSIVE LStrip(_)
LStrip(s) == IF s # <<>> /\ IsSpace(Head(s)) THEN LStrip(Tail(s)) ELSE s

RECURSIVE RStrip(_)
RStrip(s) ==
    IF s # <<>> /\ IsSpace(s[Len(s)]) THEN RStrip(SubSeq(s, 1, Len(s) - 1)) ELSE s

Strip(s) == RStrip(LStrip(s))

\* s.split(sep) for a one-character separator
RECURSIVE Split(_, _)
Split(s, sep) ==
    IF \A i \in 1..Len(s) : s[i] # sep THEN <<s>>
    ELSE LET k == CHOOSE i \in 1..Len(s) :
                      s[i] = sep /\ \A j \in 1..(i - 1) : s[j] # sep
         IN  <<SubSeq(s, 1, k - 1)>> \o Split(SubSeq(s, k + 1, Len(s)), sep)

CR == "\r"

IsLineBreak(c) == c \in {NL, CR}

\* text.splitlines(), for texts whose line boundaries are "\n", "\r" and
\* "\r\n": a boundary ends a line and is dropped, "\r\n" counts as one
RECURSIVE SplitLines(_)
SplitLines(text) ==
    IF text = <<>> THEN <<>>
    ELSE IF \A i \in 1..Len(text) : ~IsLineBreak(text[i]) THEN <<text>>
    ELSE LET k == CHOOSE i \in 1..Len(text) :
                      IsLineBreak(text[i]) /\ \A j \in 1..(i - 1) : ~IsLineBreak(text[j])
             n == IF text[k] = CR /\ k < Len(text) /\ text[k + 1] = NL
                  THEN k + 2 ELSE k + 1
         IN  <<SubSeq(text, 1, k - 1)>> \o SplitLines(SubSeq(text, n, Len(text)))

\* "\n".join(lines)
RECURSIVE JoinLines(_)
JoinLines(lines) ==
    IF lines = <<>> THEN <<>>
    ELSE IF Len(lines) = 1 THEN lines[1]
    ELSE lines[1] \o <<NL>> \o JoinLines(Tail(lines))

\* list.extend over a list of lists
RECURSIVE Flatten(_)
Flatten(ss) == IF ss = <<>> THEN <<>> ELSE Head(ss) \o Flatten(Tail(ss))

\* fnmatch.fnmatch(path, pat) on POSIX, for patterns without "[" classes
RECURSIVE FnMatch(_, _)
FnMatch(path, pat) ==
    IF pat = <<>> THEN path = <<>>
    ELSE IF Head(pat) = "*"
         THEN FnMatch(path, Tail(pat)) \/ (path # <<>> /\ FnMatch(Tail(path), pat))
    ELSE /\ path # <<>>
         /\ Head(pat) = "?" \/ Head(pat) = Head(path)
         /\ FnMatch(Tail(path), Tail(pat))

_matches_any(path, patterns) ==
    \E k \in 1..Len(patterns) : FnMatch(path, patterns[k])

----------------------------------------------------------------------------
(* Line classes of a unified diff *)

DIFF_GIT == <<"d", "i", "f", "f", " ", "-", "-", "g", "i", "t", " ">>

GIT_BINARY == <<"G", "I", "T", " ", "b", "i", "n", "a", "r", "y", " ",
                "p", "a", "t", "c", "h">>

HUNK_MARK == <<"@", "@", " ">>

DEV_NULL == <<"/", "d", "e", "v", "/", "n", "u", "l", "l">>

IsFileBoundary(line) == StartsWith(line, DIFF_GIT)

IsBinaryMarker(line) == StartsWith(line, GIT_BINARY)

IsHunkBoundary(line) == StartsWith(line, HUNK_MARK)

_strip_prefix(path) ==
    IF path = DEV_NULL \/ path = Tail(DEV_NULL) THEN None
    ELSE IF StartsWith(path, <<"a", "/">>) \/ StartsWith(path, <<"b", "/">>)
         THEN SubSeq(path, 3, Len(path))
    ELSE path

----------------------------------------------------------------------------
(* Records *)

Hunk(hunk_lines) == [header |-> hunk_lines[1], lines |-> hunk_lines]

\* mutant of body_lines: the header line counts as body
body_lines_with_header(hunk) == hunk.lines

body_lines(hunk) == Tail(hunk.lines)

body_text(hunk) == JoinLines(body_lines(hunk))

NewDiffFile(line) ==
    LET parts == Split(line, " ")
    IN  [old_path     |-> IF Len(parts) > 2 THEN _strip_prefix(parts[3]) ELSE None,
         new_path     |-> IF Len(parts) > 3 THEN _strip_prefix(parts[4]) ELSE None,
         header_lines |-> <<line>>,
         hunks        |-> <<>>,
         is_binary    |-> FALSE,
         binary_lines |-> <<>>]

_file_label(df) ==
    IF Truthy(df.new_path) THEN df.new_path
    ELSE IF Truthy(df.old_path) THEN df.old_path
    ELSE <<"<", "u", "n", "k", "n", "o", "w", "n", ">">>

----------------------------------------------------------------------------
(* parse_unified_diff *)

\* mutant of BinaryEnd: the binary block also ends at a hunk header
RECURSIVE BinaryEndAtHunk(_, _)
BinaryEndAtHunk(lines, i) ==
    IF i > Len(lines) \/ IsFileBoundary(lines[i]) \/ StartsWith(lines[i], HUNK_MARK) THEN i
    ELSE BinaryEndAtHunk(lines, i + 1)

\* first index >= i of a file-boundary line, Len(lines) + 1 if there is none
RECURSIVE BinaryEnd(_, _)
BinaryEnd(lines, i) ==
    IF i > Len(lines) \/ IsFileBoundary(lines[i]) THEN i
    ELSE BinaryEnd(lines, i + 1)

RECURSIVE HunkEndAtBinary(_, _)
HunkEndAtBinary(lines, i) ==
    IF i > Len(lines) \/ IsFileBoundary(lines[i]) \/ IsHunkBoundary(lines[i])
           \/ IsBinaryMarker(lines[i]) THEN i
    ELSE HunkEndAtBinary(lines, i + 1)

\* first index >= i of a file-boundary or hunk-boundary line
RECURSIVE HunkEnd(_, _)
HunkEnd(lines, i) ==
    IF i > Len(lines) \/ IsFileBoundary(lines[i]) \/ IsHunkBoundary(lines[i]) THEN i
    ELSE HunkEnd(lines, i + 1)

\* the while loop of parse_unified_diff from index i on; current is <<>>
\* (None) or <<df>>
RECURSIVE ParseLoop(_, _, _, _)
ParseLoop(lines, i, files, current) ==
    IF i > Len(lines) THEN files \o current
    ELSE LET line == lines[i] IN
         IF IsFileBoundary(line)
         THEN ParseLoop(lines, i + 1, files \o current, <<NewDiffFile(line)>>)
         ELSE IF current = <<>>
         THEN ParseLoop(lines, i + 1, files, current)
         ELSE IF IsBinaryMarker(line)
         THEN LET j == BinaryEnd(lines, i)
                  df == [current[1] EXCEPT
                            !.is_binary = TRUE,
                            !.binary_lines = @ \o SubSeq(lines, i, j - 1)]
              IN  ParseLoop(lines, j, files, <<df>>)
         ELSE IF IsHunkBoundary(line)
         THEN LET j == HunkEnd(lines, i + 1)
                  df == [current[1] EXCEPT
                            !.hunks = Append(@, Hunk(SubSeq(lines, i, j - 1)))]
              IN  ParseLoop(lines, j, files, <<df>>)
         ELSE ParseLoop(lines, i + 1, files,
                        <<[current[1] EXCEPT !.header_lines = Append(@, line)]>>)

parse_unified_diff(text) == ParseLoop(SplitLines(text), 1, <<>>, <<>>)

----------------------------------------------------------------------------
(* parse_hunk_selectors *)

\* one raw selector dict, with "range" None or a str, "occurrence" <<>> or <<n>>
RawSelectorValid(raw) ==
    /\ Strip(raw.file) # <<>>
    /\ raw.occurrence = NoneInt \/ raw.occurrence[1] >= 1

HunkSelector(raw) ==
    [file         |-> raw.file,
     range_header |-> IF Truthy(raw.range) THEN Strip(raw.range) ELSE None,
     contains     |-> raw.contains,
     excludes     |-> raw.excludes,
     occurrence   |-> raw.occurrence,
     all_hunks    |-> raw.all,
     has_filters  |-> \/ raw.all
                      \/ Truthy(raw.range)
                      \/ raw.contains # <<>>
                      \/ raw.excludes # <<>>
                      \/ raw.occurrence # NoneInt]

\* the parsed list, or the CommandError of the first invalid selector
parse_hunk_selectors(raws) ==
    IF \E i \in 1..Len(raws) : ~RawSelectorValid(raws[i])
    THEN [ok |-> FALSE, error |-> [kind |-> "invalid selector", detail |-> {}]]
    ELSE [ok |-> TRUE, parsed |-> [i \in 1..Len(raws) |-> HunkSelector(raws[i])]]

----------------------------------------------------------------------------
(* select_hunks_for_changeset *)

\* the indexes 1..n in ascending order
Indexes(n) == [i \in 1..n |-> i]

SelectorMatchesFileGlob(selector, df) ==
    \/ selector.file = _file_label(df)
    \/ Truthy(df.old_path) /\ FnMatch(df.old_path, selector.file)
    \/ Truthy(df.new_path) /\ FnMatch(df.new_path, selector.file)

SelectorMatchesFile(selector, df) ==
    \/ selector.file = _file_label(df)
    \/ Truthy(df.old_path) /\ selector.file = df.old_path
    \/ Truthy(df.new_path) /\ selector.file = df.new_path

\* positions in sels of the selectors matching df, in list order; a
\* position stands for id(selector)
_selectors_for_file(sels, df) ==
    LET Test(i) == SelectorMatchesFile(sels[i], df)
    IN  SelectSeq(Indexes(Len(sels)), Test)

\* mutant of FileLabels: the globs see the display label alone
FileLabelsDisplayOnly(df) == {_file_label(df)}

\* labels: the old and the new path, when present
FileLabels(df) == {p \in {df.old_path, df.new_path} : Truthy(p)}

FailsInclude(df, include) ==
    include # <<>> /\ ~ \E path \in FileLabels(df) : _matches_any(path, include)

HitsExclude(df, exclude) ==
    exclude # <<>> /\ \E path \in FileLabels(df) : _matches_any(path, exclude)

\* the include/exclude checks made for one selector: "" or the error raised
ScopeError(df, include, exclude) ==
    IF FailsInclude(df, include) THEN "does not match include_paths"
    ELSE IF HitsExclude(df, exclude) THEN "is excluded by exclude_paths"
    ELSE ""

HunkIsCandidate(selector, hunk) ==
    /\ ~ (Truthy(selector.range_header)
            /\ Strip(selector.range_header) # Strip(hunk.header))
    /\ ~ (selector.contains # <<>>
            /\ ~ \A k \in 1..Len(selector.contains) :
                     Contains(body_text(hunk), selector.contains[k]))
    /\ ~ (selector.excludes # <<>>
            /\ \E k \in 1..Len(selector.excludes) :
                   Contains(body_text(hunk), selector.excludes[k]))

\* positions in df.hunks of the candidates of a selector, in parsed order
Candidates(selector, df) ==
    LET Test(h) == HunkIsCandidate(selector, df.hunks[h])
    IN  SelectSeq(Indexes(Len(df.hunks)), Test)

\* hunk not in chosen: list membership compares the Hunk dataclasses by value
NotInChosen(df, h, chosen) ==
    \A k \in 1..Len(chosen) : df.hunks[chosen[k]] # df.hunks[h]

\* mutant of AppendChosen: a hunk is appended each time a selector picks it
AppendChosenAlways(df, h, chosen) == Append(chosen, h)

AppendChosen(df, h, chosen) ==
    IF NotInChosen(df, h, chosen) THEN Append(chosen, h) ELSE chosen

\* a CommandError: which message, and the file(s) the message names
Raise(kind, detail) == [ok |-> FALSE, error |-> [kind |-> kind, detail |-> detail]]

\* mutant of OccurrencePick: the first candidate, whatever the occurrence
OccurrencePickFirst(selector, candidates) == candidates[1]

\* candidates[selector.occurrence - 1]
OccurrencePick(selector, candidates) == candidates[selector.occurrence[1]]

\* mutant of Ambiguous: several candidates are never an error
AmbiguousNever(selector, candidates) == FALSE

\* mutant of Ambiguous: a selector without filters is never ambiguous
AmbiguousWhenFiltered(selector, candidates) ==
    selector.has_filters /\ selector.occurrence = NoneInt /\ Len(candidates) > 1

\* no occurrence index and more than one candidate
Ambiguous(selector, candidates) ==
    selector.occurrence = NoneInt /\ Len(candidates) > 1

\* mutant of ResolveSelector: a selector without candidates is skipped
ResolveSelectorSkippingUnmatched(df, selector, chosen, include, exclude) ==
    LET scope == ScopeError(df, include, exclude)
        candidates == Candidates(selector, df)
    IN  IF scope # "" THEN Raise(scope, {selector.file})
        ELSE IF candidates = <<>> THEN [ok |-> TRUE, chosen |-> chosen]
        ELSE IF selector.occurrence # NoneInt
        THEN IF selector.occurrence[1] > Len(candidates)
             THEN Raise("occurrence exceeds matches", {_file_label(df)})
             ELSE [ok |-> TRUE,
                   chosen |-> AppendChosen(df, OccurrencePick(selector, candidates), chosen)]
        ELSE IF Ambiguous(selector, candidates)
             THEN Raise("matched multiple hunks", {_file_label(df)})
             ELSE [ok |-> TRUE, chosen |-> AppendChosen(df, candidates[1], chosen)]

\* mutant of ResolveSelector: the scope check comes after the candidates
ResolveSelectorScopeLast(df, selector, chosen, include, exclude) ==
    LET scope == ScopeError(df, include, exclude)
        candidates == Candidates(selector, df)
    IN  IF candidates = <<>> THEN Raise("matched no hunks", {_file_label(df)})
        ELSE IF scope # "" THEN Raise(scope, {selector.file})
        ELSE IF selector.occurrence # NoneInt
        THEN IF selector.occurrence[1] > Len(candidates)
             THEN Raise("occurrence exceeds matches", {_file_label(df)})
             ELSE [ok |-> TRUE,
                   chosen |-> AppendChosen(df, OccurrencePick(selector, candidates), chosen)]
        ELSE IF Ambiguous(selector, candidates)
             THEN Raise("matched multiple hunks", {_file_label(df)})
             ELSE [ok |-> TRUE, chosen |-> AppendChosen(df, candidates[1], chosen)]

\* one iteration of the per-selector loop (no select_all): the error raised
\* or the new chosen list (positions in df.hunks, in the order appended)
ResolveSelector(df, selector, chosen, include, exclude) ==
    LET scope == ScopeError(df, include, exclude)
        candidates == Candidates(selector, df)
    IN  IF scope # "" THEN Raise(scope, {selector.file})
        ELSE IF candidates = <<>> THEN Raise("matched no hunks", {_file_label(df)})
        ELSE IF selector.occurrence # NoneInt
        THEN IF selector.occurrence[1] > Len(candidates)
             THEN Raise("occurrence exceeds matches", {_file_label(df)})
             ELSE [ok |-> TRUE,
                   chosen |-> AppendChosen(df, OccurrencePick(selector, candidates), chosen)]
        ELSE IF Ambiguous(selector, candidates)
             THEN Raise("matched multiple hunks", {_file_label(df)})
             ELSE [ok |-> TRUE, chosen |-> AppendChosen(df, candidates[1], chosen)]

\* the per-selector loop over file_selectors[j..]
RECURSIVE ResolveSelectors(_, _, _, _, _, _, _)
ResolveSelectors(df, sels, file_selectors, j, chosen, include, exclude) ==
    IF j > Len(file_selectors) THEN [ok |-> TRUE, chosen |-> chosen]
    ELSE LET r == ResolveSelector(df, sels[file_selectors[j]], chosen,
                                  include, exclude)
         IN  IF ~r.ok THEN r
             ELSE ResolveSelectors(df, sels, file_selectors, j + 1, r.chosen,
                                   include, exclude)

\* mutant of SelectAll: a bare selector brings select-all under either policy
SelectAllWhenBare(file_selectors_, allow_partial) ==
    \/ \E k \in 1..Len(file_selectors_) : file_selectors_[k].all_hunks
    \/ \E k \in 1..Len(file_selectors_) : ~file_selectors_[k].has_filters

\* mutant of SelectAll: only the all flag brings select-all
SelectAllByFlagOnly(file_selectors_, allow_partial) ==
    \E k \in 1..Len(file_selectors_) : file_selectors_[k].all_hunks

\* select_all: some selector of the file sets all, or partial files are not
\* allowed and some selector of the file is bare
SelectAll(file_selectors_, allow_partial) ==
    \/ \E k \in 1..Len(file_selectors_) : file_selectors_[k].all_hunks
    \/ /\ ~allow_partial
       /\ \E k \in 1..Len(file_selectors_) : ~file_selectors_[k].has_filters

\* the select_all branch: every selector passes the scope checks, then all hunks
ChooseAll(df, sels, file_selectors, include, exclude) ==
    LET scope == ScopeError(df, include, exclude)
    IN  IF scope # "" THEN Raise(scope, {sels[file_selectors[1]].file})
        ELSE [ok |-> TRUE, chosen |-> Indexes(Len(df.hunks))]

\* mutant of BinaryRefused: binary files are treated like any other
BinaryRefusedNever(df) == FALSE

\* the binary check made before any hunk is looked at
BinaryRefused(df) == df.is_binary

\* mutant of HunklessRefused: a file without hunks goes on to the selection
HunklessRefusedNever(df) == FALSE

\* the check for a file record that has nothing to select
HunklessRefused(df) == df.hunks = <<>>

\* mutant of PartialRefused: the policy is not enforced
PartialRefusedNever(df, chosen, allow_partial) == FALSE

\* the whole-file policy check made on the chosen hunks
PartialRefused(df, chosen, allow_partial) ==
    ~allow_partial /\ Len(chosen) # Len(df.hunks)

\* the body of the loop over diff_files for a file with matching selectors:
\* the error raised, or the chosen hunk positions
ChooseForFile(df, sels, file_selectors, include, exclude, allow_partial) ==
    IF BinaryRefused(df) THEN Raise("is binary", {_file_label(df)})
    ELSE IF HunklessRefused(df)
    THEN Raise("no hunks available to select", {_file_label(df)})
    ELSE LET fs == [k \in 1..Len(file_selectors) |-> sels[file_selectors[k]]]
             r  == IF SelectAll(fs, allow_partial)
                   THEN ChooseAll(df, sels, file_selectors, include, exclude)
                   ELSE ResolveSelectors(df, sels, file_selectors, 1, <<>>,
                                         include, exclude)
         IN  IF ~r.ok THEN r
             ELSE IF PartialRefused(df, r.chosen, allow_partial)
             THEN Raise("requires all hunks", {_file_label(df)})
             ELSE r

\* mutant of EmitFile: only the file-boundary line of the header is emitted
EmitFileBoundaryLineOnly(df, chosen) ==
    <<df.header_lines[1]>>
        \o Flatten([k \in 1..Len(chosen) |-> df.hunks[chosen[k]].lines])

\* patch_lines of one file: its header lines, then the chosen hunks as chosen
EmitFile(df, chosen) ==
    df.header_lines \o Flatten([k \in 1..Len(chosen) |-> df.hunks[chosen[k]].lines])

\* mutant of FilesLoop: a file whose selectors raise is left out of the patch
\* and the loop goes on
RECURSIVE FilesLoopSkippingErrors(_, _, _, _, _, _, _)
FilesLoopSkippingErrors(files, k, sels, include, exclude, allow_partial, acc) ==
    IF k > Len(files) THEN [ok |-> TRUE, acc |-> acc]
    ELSE LET df == files[k]
             file_selectors == _selectors_for_file(sels, df)
             r == ChooseForFile(df, sels, file_selectors, include, exclude, allow_partial)
             chosen == IF file_selectors # <<>> /\ r.ok THEN r.chosen ELSE <<>>
         IN  FilesLoopSkippingErrors(files, k + 1, sels, include, exclude,
                 allow_partial,
                 [patch_lines    |-> IF chosen # <<>>
                                     THEN acc.patch_lines \o EmitFile(df, chosen)
                                     ELSE acc.patch_lines,
                  selected_files |-> IF chosen # <<>>
                                     THEN Append(acc.selected_files, _file_label(df))
                                     ELSE acc.selected_files,
                  selected_hunks |-> acc.selected_hunks + Len(chosen),
                  seen           |-> acc.seen \cup
                                     {file_selectors[j] : j \in 1..Len(file_selectors)}])

\* the loop over diff_files[k..]; acc holds patch_lines, selected_files,
\* selected_hunks and the set of seen selector positions
RECURSIVE FilesLoop(_, _, _, _, _, _, _)
FilesLoop(files, k, sels, include, exclude, allow_partial, acc) ==
    IF k > Len(files) THEN [ok |-> TRUE, acc |-> acc]
    ELSE LET df == files[k]
             file_selectors == _selectors_for_file(sels, df)
         IN  IF file_selectors = <<>>
             THEN FilesLoop(files, k + 1, sels, include, exclude, allow_partial, acc)
             ELSE LET r == ChooseForFile(df, sels, file_selectors,
                                         include, exclude, allow_partial)
                  IN  IF ~r.ok THEN r
                      ELSE FilesLoop(files, k + 1, sels, include, exclude,
                             allow_partial,
                             [patch_lines    |-> IF r.chosen # <<>>
                                                 THEN acc.patch_lines \o EmitFile(df, r.chosen)
                                                 ELSE acc.patch_lines,
                              selected_files |-> IF r.chosen # <<>>
                                                 THEN Append(acc.selected_files, _file_label(df))
                                                 ELSE acc.selected_files,
                              selected_hunks |-> acc.selected_hunks + Len(r.chosen),
                              seen           |-> acc.seen \cup
                                                 {file_selectors[j] : j \in 1..Len(file_selectors)}])

EmptyAcc ==
    [patch_lines |-> <<>>, selected_files |-> <<>>, selected_hunks |-> 0, seen |-> {}]

\* mutant of SelectedPatch: the text is the joined lines without the final newline
SelectedPatchUnterminated(acc) ==
    [text        |-> JoinLines(acc.patch_lines),
     files       |-> Len(acc.selected_files),
     hunks       |-> acc.selected_hunks,
     file_labels |-> acc.selected_files]

SelectedPatch(acc) ==
    [text        |-> JoinLines(acc.patch_lines) \o <<NL>>,
     files       |-> Len(acc.selected_files),
     hunks       |-> acc.selected_hunks,
     file_labels |-> acc.selected_files]

\* mutant of MissingFiles: unconsumed selectors go unnoticed
MissingFilesNone(sels, seen) == {}

\* the files of the selectors that no file record consumed
MissingFiles(sels, seen) == {sels[i].file : i \in (1..Len(sels)) \ seen}

\* mutant of select_hunks_for_changeset: the guards against an empty selector
\* list and an empty selection are left out
select_hunks_unguarded(files, sels, include, exclude, allow_partial) ==
    LET r == FilesLoop(files, 1, sels, include, exclude, allow_partial, EmptyAcc)
    IN  IF ~r.ok THEN r
        ELSE LET missing == MissingFiles(sels, r.acc.seen)
             IN  IF missing # {}
                 THEN Raise("selector file(s) not found in diff", missing)
                 ELSE [ok |-> TRUE, patch |-> SelectedPatch(r.acc)]

select_hunks_for_changeset(files, sels, include, exclude, allow_partial) ==
    IF sels = <<>> THEN Raise("hunk_selectors must be non-empty", {})
    ELSE LET r == FilesLoop(files, 1, sels, include, exclude, allow_partial, EmptyAcc)
         IN  IF ~r.ok THEN r
             ELSE LET missing == MissingFiles(sels, r.acc.seen)
                  IN  IF missing # {}
                      THEN Raise("selector file(s) not found in diff", missing)
                      ELSE IF r.acc.selected_files = <<>>
                      THEN Raise("no hunks selected", {})
                      ELSE [ok |-> TRUE, patch |-> SelectedPatch(r.acc)]

----------------------------------------------------------------------------
(* The inputs: diff texts as git diff --binary --find-renames writes them,  *)
(* and changesets of mode "hunks"                                           *)

MaxHunks == 3

MaxSelectors == 2

MaxOccurrence == 3

MaxLines == 5

PathF == <<"f">>

PathO == <<"o">>

PathN == <<"n">>

PathX == <<"x">>

HeaderA == <<"@", "@", " ", "1", " ", "@", "@">>

HeaderB == <<"@", "@", " ", "2", " ", "@", "@">>

\* the lines of two hunks: both bodies hold "a", only the second holds "b"
HunkA == <<HeaderA, <<"+", "a">>>>

HunkAB == <<HeaderB, <<"+", "a">>, <<"+", "b">>>>

Digits == <<"1", "2", "3", "4", "5", "6", "7", "8", "9">>

\* git numbers the hunks of a file by their line ranges, so no two hunks of
\* one file carry the same header
HeaderAt(p) == <<"@", "@", " ", Digits[p], " ", "@", "@">>

BodyPool == {Tail(HunkA), Tail(HunkAB)}

\* the hunk lists of one file: at most n hunks, the p-th under HeaderAt(p)
HunkSeqs(n) ==
    {[p \in 1..Len(bodies) |-> <<HeaderAt(p)>> \o bodies[p]] :
        bodies \in UNION {[1..k -> BodyPool] : k \in 0..n}}

BinaryBlock == <<GIT_BINARY, <<"z">>>>

DiffGitLine(old, new) ==
    DIFF_GIT \o <<"a", "/">> \o old \o <<" ", "b", "/">> \o new

\* the lines of one file of the diff: its header lines, then its content
FileBlock(old, new, content) ==
    <<DiffGitLine(old, new), <<"+", "+", "+", " ", "b", "/">> \o new>> \o content

DiffText(lines) == JoinLines(lines) \o <<NL>>

Filter(r, c, e) == [range |-> r, contains |-> c, excludes |-> e]

NoFilter == Filter(None, <<>>, <<>>)

RawSelector(file, f, occurrence, all) ==
    [file |-> file, range |-> f.range, contains |-> f.contains,
     excludes |-> f.excludes, occurrence |-> occurrence, all |-> all]

Occurrences == {NoneInt} \cup {<<n>> : n \in 1..MaxOccurrence}

SelectorLists(pool) == UNION {[1..k -> pool] : k \in 1..MaxSelectors}

\* one file with up to MaxHunks hunks or a binary payload
DeepDiffs ==
    {DiffText(FileBlock(PathF, PathF, Flatten(hs))) : hs \in HunkSeqs(MaxHunks)}
        \cup {DiffText(FileBlock(PathF, PathF, BinaryBlock))}

\* every combination of the fields of one selector of that file; "@" occurs
\* in the header of every hunk and in no body
SoloFilters ==
    {Filter(r, c, e) :
        r \in {None, <<" ">> \o HeaderA, HeaderB},
        c \in {<<>>, <<<<"a">>>>, <<<<"b">>>>, <<<<"a">>, <<"b">>>>, <<<<"@">>>>},
        e \in {<<>>, <<<<"b">>>>}}

SoloSelectors ==
    {RawSelector(PathF, f, o, all) :
        f \in SoloFilters, o \in Occurrences, all \in BOOLEAN}

\* selectors of that file that go together in one list
GroupSelectors ==
    {RawSelector(PathF, f, NoneInt, FALSE) :
        f \in {NoFilter,
               Filter(None, <<<<"a">>>>, <<>>),
               Filter(None, <<<<"b">>>>, <<>>),
               Filter(None, <<>>, <<<<"b">>>>)}}
        \cup {RawSelector(PathF, Filter(None, <<<<"a">>>>, <<>>), <<n>>, FALSE) :
                 n \in {1, 2}}
        \cup {RawSelector(PathF, Filter(None, <<<<"b">>>>, <<>>), <<1>>, FALSE)}
        \cup {RawSelector(PathF, NoFilter, NoneInt, TRUE)}

\* a plain file and a renamed file in either order, selectors naming the
\* paths of the diff and a path that is not in it, scoped by globs
WideContentsF == {Flatten(<<HunkA, HunkAB>>), BinaryBlock}

WideContentsR == {HunkA, BinaryBlock, <<>>}

WideDiffs ==
    {DiffText(FileBlock(PathO, PathN, r)) : r \in WideContentsR}
        \cup {DiffText(FileBlock(PathF, PathF, c) \o FileBlock(PathO, PathN, r)) :
                 c \in WideContentsF, r \in WideContentsR}
        \cup {DiffText(FileBlock(PathO, PathN, r) \o FileBlock(PathF, PathF, c)) :
                 c \in WideContentsF, r \in WideContentsR}

WideSelectors ==
    {RawSelector(PathF, NoFilter, NoneInt, TRUE),
     RawSelector(PathF, Filter(None, <<<<"b">>>>, <<>>), NoneInt, FALSE),
     RawSelector(PathO, NoFilter, NoneInt, FALSE),
     RawSelector(PathO, NoFilter, NoneInt, TRUE),
     RawSelector(PathN, NoFilter, NoneInt, FALSE),
     RawSelector(PathX, NoFilter, NoneInt, FALSE)}

WideIncludes == {<<>>, <<PathN>>, <<<<"*">>, PathX>>}

WideExcludes == {<<>>, <<PathO>>}

\* selectors parse_hunk_selectors rejects
InvalidSelectors ==
    {RawSelector(PathF, NoFilter, <<0>>, FALSE), RawSelector(<<" ">>, NoFilter, NoneInt, TRUE)}

\* no repository is involved while a single changeset is resolved
NoRepo == [heads |-> <<>>, current |-> <<>>, unmerged |-> FALSE,
           applied |-> {}, recorded |-> FALSE]

NoCmd == [op |-> "none", total |-> 0, prefix |-> 0, merged |-> 0, raised |-> "none",
          detail |-> <<>>]

\* the lists validate_plan_strict starts with
NotValidated == [errors |-> <<>>, warnings |-> <<>>]

Pending == [ok |-> FALSE, error |-> [kind |-> "pending", detail |-> {}]]

InitSolo ==
    /\ diff_text \in DeepDiffs
    /\ raw_selectors \in {<<sel>> : sel \in SoloSelectors}
    /\ include_paths = <<>>
    /\ exclude_paths = <<>>
    /\ allow_partial_files \in BOOLEAN

InitGroup ==
    /\ diff_text \in DeepDiffs
    /\ raw_selectors \in SelectorLists(GroupSelectors)
    /\ include_paths = <<>>
    /\ exclude_paths = <<>>
    /\ allow_partial_files \in BOOLEAN

InitWide ==
    /\ diff_text \in WideDiffs
    /\ raw_selectors \in SelectorLists(WideSelectors) \cup {<<>>}
    /\ include_paths \in WideIncludes
    /\ exclude_paths \in WideExcludes
    /\ allow_partial_files \in BOOLEAN

InitInvalid ==
    /\ diff_text \in DeepDiffs
    /\ raw_selectors \in {<<sel>> : sel \in InvalidSelectors}
            \cup {<<RawSelector(PathF, NoFilter, NoneInt, TRUE), sel>> : sel \in InvalidSelectors}
    /\ include_paths = <<>>
    /\ exclude_paths = <<>>
    /\ allow_partial_files = TRUE

\* the ways a selector may try to address a file: by a path, by the
\* "old -> new" label hunk-preview prints for a rename, by a glob, or by
\* the leading part of a path
PathOO == <<"o", "o">>

ArrowLabel(old, new) == old \o <<" ", "-", ">", " ">> \o new

AddressDiffs ==
    {DiffText(FileBlock(PathO, PathN, HunkA)), DiffText(FileBlock(PathOO, PathOO, HunkA))}

AddressFiles ==
    {PathO, PathN, PathOO, ArrowLabel(PathO, PathN), <<"*">>, <<"o", "*">>}

\* a selector matching no hunk of the renamed file, alone and next to a
\* selector of the other file
PrecedenceSelectors ==
    LET nothing == RawSelector(PathO, Filter(None, <<<<"b">>>>, <<>>), NoneInt, FALSE)
        whole == RawSelector(PathF, NoFilter, NoneInt, TRUE)
    IN  {<<nothing>>, <<whole, nothing>>, <<nothing, whole>>}

InitPrecedence ==
    /\ diff_text \in WideDiffs
    /\ raw_selectors \in PrecedenceSelectors
    /\ include_paths \in WideIncludes
    /\ exclude_paths \in WideExcludes
    /\ allow_partial_files \in BOOLEAN

InitAddress ==
    /\ diff_text \in AddressDiffs
    /\ raw_selectors \in {<<RawSelector(file, NoFilter, NoneInt, all)>> :
                              file \in AddressFiles, all \in BOOLEAN}
    /\ include_paths = <<>>
    /\ exclude_paths = <<>>
    /\ allow_partial_files \in BOOLEAN

Init ==
    /\ InitSolo \/ InitGroup \/ InitWide \/ InitInvalid \/ InitAddress \/ InitPrecedence
    /\ pc = "ready"
    /\ selectors = <<>>
    /\ diff_files = <<>>
    /\ outcome = Pending
    /\ validation = NotValidated
    /\ repo = NoRepo
    /\ cmd = NoCmd

\* the plans validate_plan_strict is run on here: the diffs with a renamed file
InitValidate ==
    /\ InitWide \/ InitInvalid
    /\ pc = "ready"
    /\ selectors = <<>>
    /\ diff_files = <<>>
    /\ outcome = Pending
    /\ validation = NotValidated
    /\ repo = NoRepo
    /\ cmd = NoCmd

\* texts of at most MaxLines lines, each a file-boundary line, a binary
\* marker, a hunk header, a content line ending in a carriage return or an
\* empty line, with or without the final newline
ParseLines ==
    {DiffGitLine(PathF, PathF), GIT_BINARY, HeaderA, <<"+", "a", CR>>, <<>>}

ParseTexts(n) ==
    LET seqs == UNION {[1..k -> ParseLines] : k \in 0..n}
    IN  {JoinLines(ls) : ls \in seqs} \cup {JoinLines(ls) \o <<NL>> : ls \in seqs}

\* the "---" and "+++" lines git writes for the side a file does not have
OLD_NULL == <<"-", "-", "-", " ">> \o DEV_NULL

NEW_NULL == <<"+", "+", "+", " ">> \o DEV_NULL

OldSide(path) == <<"-", "-", "-", " ", "a", "/">> \o path

NewSide(path) == <<"+", "+", "+", " ", "b", "/">> \o path

\* git diff of a file that was added, removed, renamed or edited: the
\* boundary line names the path on both sides, the null device appears on
\* the "---" or "+++" line only
AddedFile(path) ==
    <<DiffGitLine(path, path), OLD_NULL, NewSide(path), HeaderA, <<"+", "a">>>>

RemovedFile(path) ==
    <<DiffGitLine(path, path), OldSide(path), NEW_NULL, HeaderA, <<"-", "a">>>>

RenamedFile(old, new) ==
    <<DiffGitLine(old, new), OldSide(old), NewSide(new), HeaderA, <<"+", "a">>>>

EditedFile(path) == RenamedFile(path, path)

GitFileTexts ==
    {DiffText(AddedFile(PathN)), DiffText(RemovedFile(PathO)),
     DiffText(RenamedFile(PathO, PathN)), DiffText(EditedFile(PathF)),
     DiffText(AddedFile(PathN) \o RemovedFile(PathO)),
     DiffText(RemovedFile(PathO) \o EditedFile(PathF) \o AddedFile(PathN))}

InitParse ==
    /\ diff_text \in ParseTexts(MaxLines) \cup GitFileTexts
    /\ raw_selectors = <<>>
    /\ include_paths = <<>>
    /\ exclude_paths = <<>>
    /\ allow_partial_files = TRUE
    /\ pc = "ready"
    /\ selectors = <<>>
    /\ diff_files = <<>>
    /\ outcome = Pending
    /\ validation = NotValidated
    /\ repo = NoRepo
    /\ cmd = NoCmd

----------------------------------------------------------------------------
(* The operations *)

\* build_diff: the diff text goes through parse_unified_diff
ParseDiff ==
    /\ pc = "ready"
    /\ pc' = "parsed"
    /\ diff_files' = parse_unified_diff(diff_text)
    /\ UNCHANGED <<diff_text, raw_selectors, include_paths, exclude_paths,
                   allow_partial_files, selectors, outcome, validation,
                   repo, cmd>>

NextParse == ParseDiff

ParseSpec == InitParse /\ [][NextParse]_vars

\* what _apply_changeset_hunks and _validate_hunks_mode both compute: the
\* parsed selectors, the parsed diff, and what the selection returns or raises
Resolution(raws, text, include, exclude, allow_partial) ==
    LET parsed == parse_hunk_selectors(raws)
        files  == parse_unified_diff(text)
    IN  IF ~parsed.ok
        THEN [selectors |-> <<>>, diff_files |-> <<>>, outcome |-> parsed]
        ELSE [selectors  |-> parsed.parsed,
              diff_files |-> files,
              outcome    |-> select_hunks_for_changeset(files, parsed.parsed,
                                 include, exclude, allow_partial)]

\* the resolution of the changeset at hand
CurrentResolution ==
    Resolution(raw_selectors, diff_text, include_paths, exclude_paths,
               allow_partial_files)

ResolveEffects(res) ==
    /\ pc' = "done"
    /\ selectors' = res.selectors
    /\ diff_files' = res.diff_files
    /\ outcome' = res.outcome
    /\ UNCHANGED <<diff_text, raw_selectors, include_paths, exclude_paths,
                   allow_partial_files, validation, repo, cmd>>

\* _apply_changeset_hunks up to the patch text handed to git apply
ResolveChangesetWith(res) ==
    /\ pc = "ready"
    /\ ResolveEffects(res)

ResolveChangeset == ResolveChangesetWith(CurrentResolution)

Next == ResolveChangeset

Spec == Init /\ [][Next]_vars

\* renames.get(path) over the renamed file records, None when path is not
\* the old path of a rename; a later record overwrites an earlier one
RECURSIVE RenameTarget(_, _)
RenameTarget(files, path) ==
    IF files = <<>> THEN None
    ELSE LET df == files[Len(files)]
         IN  IF /\ Truthy(df.old_path) /\ Truthy(df.new_path)
                /\ df.old_path # df.new_path
                /\ df.old_path = path
             THEN df.new_path
             ELSE RenameTarget(SubSeq(files, 1, Len(files) - 1), path)

\* mutant of _warn_old_path_selectors: the renames are keyed by the new path
_warn_new_path_selectors(files, sels) ==
    LET Renamed(i) == \E k \in 1..Len(files) :
                          /\ Truthy(files[k].old_path) /\ Truthy(files[k].new_path)
                          /\ files[k].old_path # files[k].new_path
                          /\ files[k].new_path = sels[i].file
        new == SelectSeq(Indexes(Len(sels)), Renamed)
    IN  [j \in 1..Len(new) |->
            [kind     |-> "selector references old path",
             file     |-> sels[new[j]].file,
             new_path |-> sels[new[j]].file]]

\* the warnings appended for the selectors that name the old path of a rename
_warn_old_path_selectors(files, sels) ==
    LET Warn(i) == [kind     |-> "selector references old path",
                    file     |-> sels[i].file,
                    new_path |-> RenameTarget(files, sels[i].file)]
        Renamed(i) == Truthy(RenameTarget(files, sels[i].file))
        old == SelectSeq(Indexes(Len(sels)), Renamed)
    IN  [j \in 1..Len(old) |-> Warn(old[j])]

\* _validate_hunks_mode: an error of the selector parsing or of the selection
\* is appended to errors and ends the validation of the changeset, a
\* selection without error brings the old-path warnings
_validate_hunks_mode(res) ==
    IF ~res.outcome.ok
    THEN [errors |-> <<res.outcome.error>>, warnings |-> <<>>]
    ELSE [errors   |-> <<>>,
          warnings |-> _warn_old_path_selectors(res.diff_files, res.selectors)]

\* validate_plan_strict on a plan with this one changeset of mode "hunks"
ValidateChangeset(res) ==
    /\ pc = "ready"
    /\ pc' = "validated"
    /\ validation' = _validate_hunks_mode(res)
    /\ UNCHANGED <<diff_text, raw_selectors, include_paths, exclude_paths,
                   allow_partial_files, selectors, diff_files, outcome,
                   repo, cmd>>

\* the changeset is applied once strict validation reported no error
ApplyValidated(res) ==
    /\ pc = "validated"
    /\ validation.errors = <<>>
    /\ ResolveEffects(res)

ValidateThenApply(res) == ValidateChangeset(res) \/ ApplyValidated(res)

NextValidate == ValidateThenApply(CurrentResolution)

ValidateSpec == InitValidate /\ [][NextValidate]_vars

----------------------------------------------------------------------------
(* What a caller observes of a resolved changeset *)

\* the message of the error raised and the names it carries, "" and {} on success
ErrorKind == IF outcome.ok THEN "" ELSE outcome.error.kind

ErrorNames == IF outcome.ok THEN {} ELSE outcome.error.detail

Resolved == pc = "done" /\ ErrorKind # "invalid selector"

Succeeded == pc = "done" /\ outcome.ok

Failed == pc = "done" /\ ~outcome.ok

FailedWith(kind, names) == pc = "done" /\ outcome = Raise(kind, names)

\* lines cut into the blocks that start at each file-boundary line
RECURSIVE FileSegments(_)
FileSegments(lines) ==
    IF lines = <<>> THEN <<>>
    ELSE LET j == BinaryEnd(lines, 2)
         IN  IF IsFileBoundary(lines[1])
             THEN <<SubSeq(lines, 1, j - 1)>> \o FileSegments(SubSeq(lines, j, Len(lines)))
             ELSE FileSegments(SubSeq(lines, j, Len(lines)))

\* s is obtained from t by dropping elements, the order of the rest kept
RECURSIVE IsSubsequence(_, _)
IsSubsequence(s, t) ==
    IF s = <<>> THEN TRUE
    ELSE IF t = <<>> THEN FALSE
    ELSE IF Head(s) = Head(t) THEN IsSubsequence(Tail(s), Tail(t))
    ELSE IsSubsequence(s, Tail(t))

\* the file records of the emitted patch text
EmittedFiles == parse_unified_diff(outcome.patch.text)

\* the hunks the emitted patch carries for the file record df, in emitted order
EmittedHunks(df) ==
    LET out == SelectSeq(EmittedFiles, LAMBDA e : e.header_lines[1] = df.header_lines[1])
    IN  IF out = <<>> THEN <<>> ELSE out[1].hunks

Range(seq) == {seq[i] : i \in 1..Len(seq)}

----------------------------------------------------------------------------
(* The selectors and hunks the claims speak of, stated on the inputs *)

Files == 1..Len(diff_files)

Sels == 1..Len(selectors)

\* selector i names the old or the new path of file record k
Targets(i, k) ==
    selectors[i].file \in {p \in {diff_files[k].old_path, diff_files[k].new_path} : Truthy(p)}

\* selector i gives nothing but its file
Bare(i) ==
    /\ raw_selectors[i].range = None
    /\ raw_selectors[i].contains = <<>>
    /\ raw_selectors[i].excludes = <<>>
    /\ raw_selectors[i].occurrence = NoneInt
    /\ ~raw_selectors[i].all

AnyAllFlag(k) == \E i \in Sels : Targets(i, k) /\ raw_selectors[i].all

\* select-all applies to file record k
AllMode(k) ==
    \/ AnyAllFlag(k)
    \/ ~allow_partial_files /\ \E i \in Sels : Targets(i, k) /\ Bare(i)

\* the hunk passes every filter of selector i
Satisfies(i, hunk) ==
    /\ raw_selectors[i].range # None
          => Strip(raw_selectors[i].range) = Strip(hunk.lines[1])
    /\ \A c \in Range(raw_selectors[i].contains) : Contains(JoinLines(Tail(hunk.lines)), c)
    /\ \A e \in Range(raw_selectors[i].excludes) : ~Contains(JoinLines(Tail(hunk.lines)), e)

\* the hunks of file record k matching selector i, in parsed order
Matches(i, k) == SelectSeq(diff_files[k].hunks, LAMBDA h : Satisfies(i, h))

Occurrence(i) == raw_selectors[i].occurrence

\* the hunk selector i stands for when it resolves
Pick(i, k) ==
    IF Occurrence(i) = NoneInt THEN Matches(i, k)[1]
    ELSE Matches(i, k)[Occurrence(i)[1]]

\* selector i resolves to a hunk of file record k
Resolves(i, k) ==
    IF Occurrence(i) = NoneInt THEN Len(Matches(i, k)) = 1
    ELSE Occurrence(i)[1] <= Len(Matches(i, k))

\* no file record before k raises
PrefixOk(k) ==
    FilesLoop(SubSeq(diff_files, 1, k - 1), 1, selectors, include_paths,
              exclude_paths, allow_partial_files, EmptyAcc).ok

\* the selection goes on to pick hunks of file record k
FileEntered(k) ==
    PrefixOk(k) /\ ~diff_files[k].is_binary /\ diff_files[k].hunks # <<>>

\* some path of file record k matches one of the globs
PathMatches(k, globs) ==
    \E g \in Range(globs) :
        \/ Truthy(diff_files[k].old_path) /\ FnMatch(diff_files[k].old_path, g)
        \/ Truthy(diff_files[k].new_path) /\ FnMatch(diff_files[k].new_path, g)

InScope(k) ==
    /\ include_paths # <<>> => PathMatches(k, include_paths)
    /\ ~PathMatches(k, exclude_paths)

\* the candidates of selector i of file record k get computed: no earlier
\* file, no earlier selector of the file and no scope check raises first
SelectorReached(i, k) ==
    /\ FileEntered(k)
    /\ InScope(k)
    /\ \A j \in 1..(i - 1) : Targets(j, k) => Resolves(j, k)

Label(k) == _file_label(diff_files[k])

\* the positions in file record k of the hunks matching selector i
MatchPositions(i, k) ==
    SelectSeq(Indexes(Len(diff_files[k].hunks)),
              LAMBDA p : Satisfies(i, diff_files[k].hunks[p]))

\* the position of the hunk selector i stands for when it resolves
PickPosition(i, k) ==
    IF Occurrence(i) = NoneInt THEN MatchPositions(i, k)[1]
    ELSE MatchPositions(i, k)[Occurrence(i)[1]]

\* the positions of the hunks of file record k picked by the selectors of a
\* successful selection
PickedPositions(k) ==
    IF AllMode(k) THEN 1..Len(diff_files[k].hunks)
    ELSE {PickPosition(i, k) : i \in {i \in Sels : Targets(i, k)}}

\* the number of picked hunks of the file records 1..k
PickedCount[k \in Nat] ==
    IF k = 0 THEN 0 ELSE PickedCount[k - 1] + Cardinality(PickedPositions(k))

\* how many times x occurs in seq
CountIn(seq, x) == Cardinality({e \in 1..Len(seq) : seq[e] = x})

----------------------------------------------------------------------------
(* Claims *)

\* C1: the lines emitted for each touched file are an in-order subsequence
\* of that file's lines in the original diff (header lines first, then the
\* chosen hunks in parsed order), whatever the order of the selectors.
C1_EmittedInDiffOrder ==
    Succeeded =>
        \A seg \in Range(FileSegments(SplitLines(outcome.patch.text))) :
            \E orig \in Range(FileSegments(SplitLines(diff_text))) :
                seg[1] = orig[1] /\ IsSubsequence(seg, orig)

\* C2: the emitted text is made of whole, unchanged pieces of the parsed
\* diff: every emitted file header is the complete header_lines of a file
\* record and every emitted hunk block is the complete lines of one of that
\* record's hunks.
C2_WholeHunksOnly ==
    Succeeded =>
        /\ EmittedFiles # <<>>
        /\ SplitLines(outcome.patch.text)
             = Flatten([i \in 1..Len(EmittedFiles) |->
                   EmittedFiles[i].header_lines
                     \o Flatten([h \in 1..Len(EmittedFiles[i].hunks) |->
                                    EmittedFiles[i].hunks[h].lines])])
        /\ \A e \in Range(EmittedFiles) :
              \E df \in Range(diff_files) :
                  /\ e.header_lines = df.header_lines
                  /\ \A h \in Range(e.hunks) : h \in Range(df.hunks)

\* C2 witness: a patch that carries one of the two hunks of a file
C2_Witness ==
    /\ Succeeded
    /\ \E df \in Range(diff_files) :
          Len(df.hunks) = 2 /\ Len(EmittedHunks(df)) = 1

\* C3: with partial files allowed and no all flag on the file, a selector
\* without occurrence whose filters match two or more hunks makes the call
\* fail, with the "matched multiple hunks; add occurrence" error once its
\* candidates are computed; no candidate is picked.
C3_AmbiguityRejected ==
    Resolved /\ allow_partial_files =>
        \A k \in Files : \A i \in Sels :
            (/\ Targets(i, k)
             /\ ~AnyAllFlag(k)
             /\ Occurrence(i) = NoneInt
             /\ Len(Matches(i, k)) >= 2)
            => /\ Failed
               /\ SelectorReached(i, k)
                    => FailedWith("matched multiple hunks", {Label(k)})

\* C3 witness: two hunks hold the substring a selector filters on
C3_Witness ==
    /\ FailedWith("matched multiple hunks", {PathF})
    /\ allow_partial_files
    /\ \E k \in Files : \E i \in Sels :
          /\ Targets(i, k)
          /\ ~AnyAllFlag(k)
          /\ raw_selectors[i].contains # <<>>
          /\ Occurrence(i) = NoneInt
          /\ Len(Matches(i, k)) >= 2

\* C4: a selector with occurrence N whose filters match k >= 1 hunks stands
\* for the N-th match in parsed order when N <= k (the emitted hunks of the
\* file are exactly the picks of its selectors), and makes the call fail
\* with "occurrence exceeds matches" when N > k.
C4_OccurrencePicksNth ==
    Resolved =>
        \A k \in Files : \A i \in Sels :
            (/\ Targets(i, k)
             /\ ~AllMode(k)
             /\ Occurrence(i) # NoneInt
             /\ Len(Matches(i, k)) >= 1)
            => IF Occurrence(i)[1] > Len(Matches(i, k))
               THEN /\ Failed
                    /\ SelectorReached(i, k)
                         => FailedWith("occurrence exceeds matches", {Label(k)})
               ELSE Succeeded =>
                    /\ Pick(i, k) \in Range(EmittedHunks(diff_files[k]))
                    /\ Range(EmittedHunks(diff_files[k]))
                         = {Pick(j, k) : j \in {j \in Sels : Targets(j, k)}}

\* C4 witness: occurrence 2 of three matches, and the second match is emitted alone
C4_Witness ==
    /\ Succeeded
    /\ \E k \in Files : \E i \in Sels :
          /\ Targets(i, k)
          /\ ~AllMode(k)
          /\ Occurrence(i) = <<2>>
          /\ Len(Matches(i, k)) = 3
          /\ Len(diff_files[k].hunks) = 3
          /\ EmittedHunks(diff_files[k]) = <<diff_files[k].hunks[2]>>
          /\ diff_files[k].hunks[1] # diff_files[k].hunks[2]

\* C5: without select-all, a selector whose filters match no hunk of its
\* file makes the call fail, with the "matched no hunks" error once its
\* candidates are computed, with or without an occurrence index and also
\* after other selectors resolved.
C5_NoMatchRejected ==
    Resolved =>
        \A k \in Files : \A i \in Sels :
            (/\ Targets(i, k)
             /\ ~AllMode(k)
             /\ Len(Matches(i, k)) = 0)
            => /\ Failed
               /\ SelectorReached(i, k) => FailedWith("matched no hunks", {Label(k)})

\* C5 witness: a selector with an occurrence index matches nothing after an
\* earlier selector of the changeset resolved
C5_Witness ==
    /\ FailedWith("matched no hunks", {PathF})
    /\ \E k \in Files : \E i \in Sels :
          /\ Targets(i, k)
          /\ Occurrence(i) # NoneInt
          /\ Len(Matches(i, k)) = 0
          /\ \E j \in 1..(i - 1) : Targets(j, k) /\ Resolves(j, k)

\* C6: a selector whose file is neither the old nor the new path of any file
\* record makes the call fail without a patch; once the files of the diff
\* are processed the error is "selector file(s) not found in diff" and names
\* that file.
C6_MissingFileRejected ==
    Resolved =>
        \A i \in Sels :
            (\A k \in Files : ~Targets(i, k))
            => /\ Failed
               /\ PrefixOk(Len(diff_files) + 1)
                    => /\ ErrorKind = "selector file(s) not found in diff"
                       /\ selectors[i].file \in ErrorNames
                       /\ ErrorNames
                            = {selectors[j].file :
                                 j \in {j \in Sels : \A k \in Files : ~Targets(j, k)}}

\* C6 witness: one selector resolves a hunk, another names a file not in the diff
C6_Witness ==
    /\ FailedWith("selector file(s) not found in diff", {PathX})
    /\ \E k \in Files : \E i \in Sels : Targets(i, k) /\ Resolves(i, k)

\* C7: a selector naming a binary file record makes the call fail whatever
\* its fields and the policy are, with the "is binary" error once the file
\* is reached.
C7_BinaryRejected ==
    Resolved =>
        \A k \in Files : \A i \in Sels :
            Targets(i, k) /\ diff_files[k].is_binary
            => /\ Failed
               /\ PrefixOk(k) => FailedWith("is binary", {Label(k)})

\* C7 witness: the selector of a binary file sets filters, occurrence and all
C7_Witness ==
    /\ Failed
    /\ ErrorKind = "is binary"
    /\ \E k \in Files : \E i \in Sels :
          /\ Targets(i, k)
          /\ diff_files[k].is_binary
          /\ raw_selectors[i].all
          /\ Occurrence(i) # NoneInt
          /\ raw_selectors[i].contains # <<>>

\* C8: when select-all applies to a file, a successful selection emits every
\* hunk of the file, every selector of the file counts as consumed, and none
\* of them raises a zero-match, ambiguity or occurrence error.
C8_SelectAllTakesEveryHunk ==
    Resolved =>
        \A k \in Files :
            AllMode(k)
            => /\ Succeeded => EmittedHunks(diff_files[k]) = diff_files[k].hunks
               /\ Failed /\ ErrorKind \in
                      {"matched no hunks", "matched multiple hunks",
                       "occurrence exceeds matches"}
                    => Label(k) \notin ErrorNames
               /\ Failed /\ ErrorKind = "selector file(s) not found in diff"
                    => \A i \in Sels :
                          Targets(i, k) => selectors[i].file \notin ErrorNames
               /\ FileEntered(k) /\ InScope(k) /\ Len(diff_files) = 1
                    /\ (\A i \in Sels : Targets(i, k))
                    => Succeeded

\* C8 witness: partial files are not allowed, a bare selector brings
\* select-all, and a sibling selector whose filters match nothing is not evaluated
C8_Witness ==
    /\ Succeeded
    /\ ~allow_partial_files
    /\ \E k \in Files :
          /\ ~AnyAllFlag(k)
          /\ Len(diff_files[k].hunks) >= 2
          /\ EmittedHunks(diff_files[k]) = diff_files[k].hunks
          /\ \E i \in Sels : Targets(i, k) /\ Bare(i)
          /\ \E i \in Sels : Targets(i, k) /\ Len(Matches(i, k)) = 0

\* C9: a file targeted by a selector fails the call when include_paths is
\* non-empty and neither of its paths matches an include glob, and when one
\* of its paths matches an exclude glob; the error is the scope error once
\* the file is entered.  A renamed file whose new path alone matches
\* include_paths passes the include check for a selector naming the old path.
C9_ScopeEnforced ==
    Resolved =>
        \A k \in Files : \A i \in Sels :
            Targets(i, k)
            => /\ ~InScope(k)
                    => /\ Failed
                       /\ FileEntered(k)
                            => ErrorKind \in
                                  {"does not match include_paths",
                                   "is excluded by exclude_paths"}
               /\ (/\ FileEntered(k)
                   /\ include_paths # <<>>
                   /\ ~PathMatches(k, include_paths))
                    => ErrorKind = "does not match include_paths"
               /\ (/\ FileEntered(k)
                   /\ include_paths # <<>> => PathMatches(k, include_paths)
                   /\ PathMatches(k, exclude_paths))
                    => ErrorKind = "is excluded by exclude_paths"
               /\ (/\ PathMatches(k, include_paths)
                   /\ Failed
                   /\ ErrorKind = "does not match include_paths")
                    => selectors[i].file \notin ErrorNames

\* C9 witness: old path named, only the new path is in include_paths, and
\* the hunk of the renamed file is selected
C9_Witness ==
    /\ Succeeded
    /\ include_paths = <<PathN>>
    /\ \E k \in Files : \E i \in Sels :
          /\ Targets(i, k)
          /\ diff_files[k].old_path = PathO
          /\ diff_files[k].new_path = PathN
          /\ selectors[i].file = PathO
          /\ EmittedHunks(diff_files[k]) # <<>>

\* C10: with allow_partial_files false a successful selection carries, for
\* every file it touches, exactly the hunks of that file; when the
\* selectors of a file resolve to a proper subset the call fails, with the
\* "requires all hunks" error once the file is reached.
C10_PartialFilesRefused ==
    Resolved /\ ~allow_partial_files =>
        /\ Succeeded =>
              \A k \in Files :
                  (\E i \in Sels : Targets(i, k))
                  => /\ Len(EmittedHunks(diff_files[k])) = Len(diff_files[k].hunks)
                     /\ Range(EmittedHunks(diff_files[k])) = Range(diff_files[k].hunks)
        /\ \A k \in Files :
              (/\ \E i \in Sels : Targets(i, k)
               /\ ~AllMode(k)
               /\ \A i \in Sels : Targets(i, k) => Resolves(i, k)
               /\ {Pick(i, k) : i \in {i \in Sels : Targets(i, k)}}
                     # Range(diff_files[k].hunks))
              => /\ Failed
                 /\ FileEntered(k) /\ InScope(k)
                      => FailedWith("requires all hunks", {Label(k)})

\* C10 witness: the one selector of a two-hunk file resolves to one hunk
C10_Witness ==
    /\ FailedWith("requires all hunks", {PathF})
    /\ ~allow_partial_files
    /\ \E k \in Files :
          /\ Len(diff_files[k].hunks) = 2
          /\ \E i \in Sels : Targets(i, k) /\ Resolves(i, k)

\* C11: in a successful selection every parsed hunk, identified by its
\* position in its file, that some selector picks is carried exactly once by
\* the emitted patch, and SelectedPatch.hunks counts each picked hunk once,
\* however many selectors of the file resolve to it.
C11_PickedHunksOnce ==
    Succeeded =>
        /\ \A k \in Files : \A p \in PickedPositions(k) :
              CountIn(EmittedHunks(diff_files[k]), diff_files[k].hunks[p]) = 1
        /\ outcome.patch.hunks = PickedCount[Len(diff_files)]

\* C11 witness: two selectors of a file with several hunks resolve to the
\* same hunk
C11_Witness ==
    /\ Succeeded
    /\ \E k \in Files : \E i, j \in Sels :
          /\ i # j
          /\ Targets(i, k) /\ Targets(j, k)
          /\ ~AllMode(k)
          /\ Len(diff_files[k].hunks) > 1
          /\ PickPosition(i, k) = PickPosition(j, k)

C13_OnlyRequestedHunks ==
    Succeeded =>
        \A e \in Range(EmittedFiles) :
            \E k \in Files :
                /\ e.header_lines = diff_files[k].header_lines
                /\ \E i \in Sels : Targets(i, k)
                /\ \A h \in Range(e.hunks) :
                      /\ h \in Range(diff_files[k].hunks)
                      /\ AllMode(k) \/ \E i \in Sels : Targets(i, k) /\ Satisfies(i, h)

\* C13 witness: a file with several hunks, no select-all, and a hunk that
\* passes the filters of no selector is left out of the patch
C13_Witness ==
    /\ Succeeded
    /\ \E k \in Files :
          /\ ~AllMode(k)
          /\ EmittedHunks(diff_files[k]) # <<>>
          /\ \E h \in Range(diff_files[k].hunks) :
                /\ \A i \in Sels : Targets(i, k) => ~Satisfies(i, h)
                /\ h \notin Range(EmittedHunks(diff_files[k]))

\* C14: no vacuous patch is returned. An empty selector list is an error,
\* and every SelectedPatch returned counts at least one file and at least as
\* many hunks as files, and its text carries at least one hunk.
C14_NoVacuousPatch ==
    /\ (pc = "done" /\ raw_selectors = <<>>) => Failed
    /\ Succeeded =>
          /\ outcome.patch.files >= 1
          /\ outcome.patch.hunks >= outcome.patch.files
          /\ \E e \in Range(EmittedFiles) : e.hunks # <<>>

\* C14 witness: a patch of two files, one of them with two hunks
C14_Witness ==
    /\ Succeeded
    /\ outcome.patch.files = 2
    /\ outcome.patch.hunks = 3

\* the file records of the diff under validation
InputFiles == parse_unified_diff(diff_text)

\* record df is a rename with one content hunk
RenameWithOneHunk(df) ==
    /\ Truthy(df.old_path) /\ Truthy(df.new_path)
    /\ df.old_path # df.new_path
    /\ ~df.is_binary
    /\ Len(df.hunks) = 1

\* the raw selector names a path of df and the one hunk of df passes it
SelectsTheHunk(raw, df) ==
    /\ raw.file \in {df.old_path, df.new_path}
    /\ RawSelectorValid(raw)
    /\ raw.occurrence \in {NoneInt, <<1>>}
    /\ raw.range # None => Strip(raw.range) = Strip(df.hunks[1].lines[1])
    /\ \A c \in Range(raw.contains) : Contains(JoinLines(Tail(df.hunks[1].lines)), c)
    /\ \A e \in Range(raw.excludes) : ~Contains(JoinLines(Tail(df.hunks[1].lines)), e)

\* the globs of the changeset leave df in scope
LeftInScope(df) ==
    /\ include_paths # <<>> =>
          \E g \in Range(include_paths) : FnMatch(df.old_path, g) \/ FnMatch(df.new_path, g)
    /\ ~ \E g \in Range(exclude_paths) : FnMatch(df.old_path, g) \/ FnMatch(df.new_path, g)

\* C15: for a rename with one content hunk that the globs leave in scope,
\* selectors of that file of which one names the old path resolve without
\* error: strict validation reports no error and, for each selector naming
\* the old path, a warning that gives the old and the new path; the patch
\* then emitted carries the record's header lines and its hunk.
C15_OldPathResolvesWithWarning ==
    pc # "ready" =>
        \A df \in Range(InputFiles) :
            (/\ RenameWithOneHunk(df)
             /\ LeftInScope(df)
             /\ raw_selectors # <<>>
             /\ \A raw \in Range(raw_selectors) : SelectsTheHunk(raw, df)
             /\ \E raw \in Range(raw_selectors) : raw.file = df.old_path)
            => /\ validation.errors = <<>>
               /\ validation.warnings =
                     [j \in 1..Len(validation.warnings) |->
                         [kind     |-> "selector references old path",
                          file     |-> df.old_path,
                          new_path |-> df.new_path]]
               /\ Len(validation.warnings)
                     = Cardinality({i \in 1..Len(raw_selectors) :
                                       raw_selectors[i].file = df.old_path})
               /\ pc = "done" =>
                     /\ Succeeded
                     /\ outcome.patch.files = 1
                     /\ outcome.patch.hunks = 1
                     /\ SplitLines(outcome.patch.text) = df.header_lines \o df.hunks[1].lines

\* C15 witness: the rename is validated and applied with one selector that
\* names the old path while include_paths names the new path
C15_Witness ==
    /\ pc = "done"
    /\ Succeeded
    /\ Len(raw_selectors) = 1
    /\ raw_selectors[1].file = PathO
    /\ include_paths = <<PathN>>
    /\ Len(validation.warnings) = 1
    /\ \E df \in Range(InputFiles) : RenameWithOneHunk(df) /\ df.old_path = PathO

\* the selectors of file record k trigger an error
FileRaises(k) ==
    /\ \E i \in Sels : Targets(i, k)
    /\ \/ diff_files[k].is_binary
       \/ diff_files[k].hunks = <<>>
       \/ ~InScope(k)
       \/ ~AllMode(k) /\ \E i \in Sels : Targets(i, k) /\ ~Resolves(i, k)
       \/ /\ ~allow_partial_files
          /\ ~AllMode(k)
          /\ \A i \in Sels : Targets(i, k) => Resolves(i, k)
          /\ Cardinality(PickedPositions(k)) # Len(diff_files[k].hunks)

\* C16: there is no partial success. When the selector list is empty, a
\* selector names no file of the diff, or the selectors of any file record
\* trigger an error, the call raises and returns neither patch text nor
\* counts, also when file records earlier in the diff resolved their
\* selectors.
C16_NoPartialSuccess ==
    (/\ Resolved
     /\ \/ selectors = <<>>
        \/ \E i \in Sels : \A k \in Files : ~Targets(i, k)
        \/ \E k \in Files : FileRaises(k))
    => /\ Failed
       /\ DOMAIN outcome = {"ok", "error"}

\* C16 witness: the first file record resolves its selectors, the second
\* one triggers an error
C16_Witness ==
    /\ Failed
    /\ Len(diff_files) = 2
    /\ \E i \in Sels : Targets(i, 1)
    /\ ~FileRaises(1)
    /\ FileRaises(2)

\* C18: a selector naming a file record that is not binary and has no hunks,
\* a pure rename for one, makes the call fail whatever its fields are, the
\* all flag included, with the "no hunks available to select" error once the
\* file is reached.
C18_HunklessRejected ==
    Resolved =>
        \A k \in Files : \A i \in Sels :
            (/\ Targets(i, k)
             /\ ~diff_files[k].is_binary
             /\ diff_files[k].hunks = <<>>)
            => /\ Failed
               /\ PrefixOk(k) => FailedWith("no hunks available to select", {Label(k)})

\* C18 witness: a selector with the all flag names a pure rename
C18_Witness ==
    /\ Failed
    /\ ErrorKind = "no hunks available to select"
    /\ \E k \in Files : \E i \in Sels :
          /\ Targets(i, k)
          /\ diff_files[k].old_path # diff_files[k].new_path
          /\ ~diff_files[k].is_binary
          /\ diff_files[k].hunks = <<>>
          /\ raw_selectors[i].all

\* the lines parse_unified_diff scans
InputLines == SplitLines(diff_text)

\* the indexes of the file-boundary lines of the input, ascending
BoundaryIndexes ==
    SelectSeq(Indexes(Len(InputLines)), LAMBDA i : IsFileBoundary(InputLines[i]))

\* the index of the last input line before the next file-boundary line
BlockEnd(r) ==
    IF r < Len(BoundaryIndexes) THEN BoundaryIndexes[r + 1] - 1 ELSE Len(InputLines)

\* C19: for every input text, a file record with is_binary = true has no
\* hunks, and its binary_lines are the input lines from the binary marker
\* line, the first one after the record's file-boundary line, up to but not
\* including the next file-boundary line, in order.
C19_BinaryBlockVerbatim ==
    pc = "parsed" =>
        /\ Len(diff_files) = Len(BoundaryIndexes)
        /\ \A r \in 1..Len(diff_files) :
              diff_files[r].is_binary =>
                  /\ diff_files[r].hunks = <<>>
                  /\ \E m \in (BoundaryIndexes[r] + 1)..BlockEnd(r) :
                        /\ IsBinaryMarker(InputLines[m])
                        /\ \A j \in (BoundaryIndexes[r] + 1)..(m - 1) :
                              ~IsBinaryMarker(InputLines[j])
                        /\ diff_files[r].binary_lines = SubSeq(InputLines, m, BlockEnd(r))

\* C19 witness: a binary block that holds a hunk header line and is followed
\* by another file record
C19_Witness ==
    /\ pc = "parsed"
    /\ Len(diff_files) = 2
    /\ diff_files[1].is_binary
    /\ \E j \in 2..Len(diff_files[1].binary_lines) :
          IsHunkBoundary(diff_files[1].binary_lines[j])

\* the number of lines of the hunks of df at the positions in P
HunkLineCount(df, P) ==
    LET f[p \in 0..Len(df.hunks)] ==
            IF p = 0 THEN 0
            ELSE f[p - 1] + (IF p \in P THEN Len(df.hunks[p].lines) ELSE 0)
    IN  f[Len(df.hunks)]

\* the header lines of the touched file records 1..k plus the lines of
\* their picked hunks
PickedLineCount[k \in Nat] ==
    IF k = 0 THEN 0
    ELSE PickedLineCount[k - 1]
           + (IF PickedPositions(k) = {} THEN 0
              ELSE Len(diff_files[k].header_lines)
                     + HunkLineCount(diff_files[k], PickedPositions(k)))

\* C20: the emitted text has as many lines as the header lines of the
\* touched files plus the lines of the chosen hunks, each line ended by one
\* newline, so that the text ends with the newline of its last line and
\* nothing follows it; files is the length of file_labels and hunks is the
\* number of hunk blocks of the text.
C20_PatchTextShape ==
    Succeeded =>
        LET text  == outcome.patch.text
            lines == SplitLines(text)
        IN  /\ Len(lines) = PickedLineCount[Len(diff_files)]
            /\ Cardinality({i \in 1..Len(text) : text[i] = NL}) = Len(lines)
            /\ text = JoinLines(lines) \o <<NL>>
            /\ text[Len(text)] = NL
            /\ outcome.patch.files = Len(outcome.patch.file_labels)
            /\ outcome.patch.hunks
                  = Cardinality({i \in 1..Len(lines) : IsHunkBoundary(lines[i])})

\* C20 witness: two of the three hunks of a file make up the patch
C20_Witness ==
    /\ Succeeded
    /\ outcome.patch.files = 1
    /\ outcome.patch.hunks = 2
    /\ Len(diff_files[1].hunks) = 3


----------------------------------------------------------------------------
(* The branch chain: common.py and chain.py *)

\* the longest plan, in changesets
MaxChain == 3

\* plan["base_branch"] and plan["source_branch"]
BaseBranch == <<"m">>

SourceBranch == <<"f">>

\* a branch head is the history it stands for: the sequence of its commits,
\* each commit a pair <<kind, index>>
BaseCommit == <<"base", 0>>

SourceCommit == <<"source", 0>>

\* no exception
NoError == "none"

Commits(head) == {head[i] : i \in DOMAIN head}

Put(f, k, v) == [x \in DOMAIN f \cup {k} |-> IF x = k THEN v ELSE f[x]]

Drop(f, k) == [x \in DOMAIN f \ {k} |-> f[x]]

\* f"{source_branch}-{index}"
branch_name_for(source_branch, index) == source_branch \o <<"-", Digits[index]>>

\* chain = [branch_name_for(source, i) for i in range(1, total + 1)]
Chain(total) == [i \in 1..total |-> branch_name_for(SourceBranch, i)]

\* git rev-parse --verify name
branch_exists(r, name) == name \in DOMAIN r.heads

\* the branches of the list that do not exist
MissingBranches(r, names) == {n \in names : ~branch_exists(r, n)}

\* git status --porcelain is non-empty: here, conflicts left in the index
TreeDirty(r) == r.unmerged

Returned(r) == [repo |-> r, raised |-> NoError, detail |-> <<>>]

Raised(r, kind, detail) == [repo |-> r, raised |-> kind, detail |-> detail]

\* git checkout name: refused while the index holds unresolved conflicts
Checkout(r, name) ==
    IF r.unmerged
    THEN Raised(r, "checkout", name)
    ELSE Returned([r EXCEPT !.current = name])

\* git checkout -B name start: name is created at (or reset to) the head of
\* start and becomes the current branch
CheckoutB(r, name, start) ==
    [r EXCEPT !.heads = Put(r.heads, name, r.heads[start]), !.current = name]

\* the exit of checkout_restore: back to the original branch unless it is
\* the current one already
checkout_restore_exit(r, original) ==
    IF r.current # original THEN Checkout(r, original) ELSE Returned(r)

\* git branch -D name with check=False: git refuses to delete the branch
\* that is checked out, and the refusal is ignored
delete_branch(r, name) ==
    IF r.current = name THEN r ELSE [r EXCEPT !.heads = Drop(r.heads, name)]

\* how applying one changeset ends: a commit, nothing staged, an error that
\* leaves the tree untouched (a selector error, an empty patch, a patch git
\* refuses), or a three-way apply that stopped on conflicts
ApplyOutcomes == {"commit", "empty", "refused", "conflict"}

\* apply_changeset on the current branch; the changeset counts as applied
\* when the call returns
apply_changeset(r, index, how) ==
    LET done == [r EXCEPT !.applied = @ \cup {index}]
    IN  CASE how = "commit" ->
                Returned([done EXCEPT !.heads[r.current] = @ \o <<<<"cs", index>>>>])
          [] how = "empty" -> Returned(done)
          [] how = "refused" -> Raised(r, "apply", index)
          [] OTHER -> Raised([r EXCEPT !.unmerged = TRUE], "apply", index)

ScanDone(existing_prefix) ==
    [raised |-> NoError, existing_prefix |-> existing_prefix, detail |-> <<>>]

ExistingPrefixNone(r, chain, idx, existing_prefix) == ScanDone(0)

RECURSIVE ExistingPrefixAnyOrder(_, _, _, _)
ExistingPrefixAnyOrder(r, chain, idx, existing_prefix) ==
    IF idx > Len(chain)
    THEN ScanDone(existing_prefix)
    ELSE IF branch_exists(r, chain[idx])
         THEN ExistingPrefixAnyOrder(r, chain, idx + 1, idx)
         ELSE ExistingPrefixAnyOrder(r, chain, idx + 1, existing_prefix)

\* the scan for the contiguous prefix of existing chain branches; a branch
\* found beyond a missing one is an error that names both
RECURSIVE ExistingPrefix(_, _, _, _)
ExistingPrefix(r, chain, idx, existing_prefix) ==
    IF idx > Len(chain)
    THEN ScanDone(existing_prefix)
    ELSE LET exists == branch_exists(r, chain[idx])
         IN  IF exists /\ idx = existing_prefix + 1
             THEN ExistingPrefix(r, chain, idx + 1, idx)
             ELSE IF exists /\ idx > existing_prefix + 1
                  THEN [raised |-> "gap", existing_prefix |-> existing_prefix,
                        detail |-> <<chain[idx],
                                     branch_name_for(SourceBranch, existing_prefix + 1)>>]
                  ELSE ExistingPrefix(r, chain, idx + 1, existing_prefix)

\* the loop over the changesets still to create: branch idx is cut from its
\* predecessor, then its changeset is applied on it
RECURSIVE CreateLoop(_, _, _, _, _)
CreateLoop(r, chain, idx, prev_branch, applies) ==
    IF idx > Len(chain)
    THEN Returned(r)
    ELSE LET name == chain[idx]
             cut == CheckoutB(r, name, prev_branch)
             fresh == [cut EXCEPT !.applied = @ \ {idx}]
             summary == apply_changeset(fresh, idx, applies[idx])
         IN  IF summary.raised # NoError
             THEN summary
             ELSE CreateLoop(summary.repo, chain, idx + 1, name, applies)

\* an exception raised while another one propagates replaces it
Latest(first, then) == IF then.raised # NoError THEN then ELSE [first EXCEPT !.repo = then.repo]

create_chain(r, total, applies) ==
    LET chain == Chain(total)
        scan == ExistingPrefix(r, chain, 1, 0)
        original == r.current
        prev_branch == IF scan.existing_prefix = 0
                       THEN BaseBranch
                       ELSE chain[scan.existing_prefix]
        looped == CreateLoop(r, chain, scan.existing_prefix + 1, prev_branch, applies)
        ended == Latest(looped, checkout_restore_exit(looped.repo, original))
    IN  IF TreeDirty(r)
        THEN Raised(r, "dirty", <<>>)
        ELSE IF MissingBranches(r, {BaseBranch, SourceBranch}) # {}
        THEN Raised(r, "missing", MissingBranches(r, {BaseBranch, SourceBranch}))
        ELSE IF scan.raised # NoError
        THEN Raised(r, scan.raised, scan.detail)
        ELSE IF ended.raised # NoError
        THEN ended
        ELSE Returned([ended.repo EXCEPT !.recorded = total])


\* no state file has been written
NotRecorded == -1

\* the head of chain branch k as create_chain left it, and with a commit
\* added to it during review when k is in fixed
ChainHead(k, fixed) ==
    <<BaseCommit>> \o [i \in 1..k |-> <<"cs", i>>]
        \o (IF k \in fixed THEN <<<<"fix", k>>>> ELSE <<>>)

ChainHeads(existing, fixed) ==
    [n \in {BaseBranch, SourceBranch}
            \cup {branch_name_for(SourceBranch, k) : k \in existing} |->
        IF n = BaseBranch THEN <<BaseCommit>>
        ELSE IF n = SourceBranch THEN <<BaseCommit, SourceCommit>>
        ELSE ChainHead(CHOOSE k \in existing : n = branch_name_for(SourceBranch, k),
                       fixed)]

\* a clean repository on the base or the source branch, holding any of the
\* chain branches (a branch may have been deleted by hand), some of them
\* amended since they were created
InitChain ==
    /\ \E existing \in SUBSET (1..MaxChain), current \in {BaseBranch, SourceBranch} :
          \E fixed \in SUBSET existing :
              repo = [heads |-> ChainHeads(existing, fixed), current |-> current,
                      unmerged |-> FALSE, applied |-> existing,
                      recorded |-> NotRecorded]
    /\ cmd = NoCmd
    /\ diff_text = <<>>
    /\ raw_selectors = <<>>
    /\ include_paths = <<>>
    /\ exclude_paths = <<>>
    /\ allow_partial_files = TRUE
    /\ pc = "idle"
    /\ selectors = <<>>
    /\ diff_files = <<>>
    /\ outcome = Pending
    /\ validation = NotValidated

ChangesetUnchanged ==
    UNCHANGED <<diff_text, raw_selectors, include_paths, exclude_paths,
                allow_partial_files, pc, selectors, diff_files, outcome,
                validation>>

\* the sizes of the plans a command is run on; a dirty tree stops every
\* command before it looks at its plan
Totals(r) == IF TreeDirty(r) THEN {MaxChain} ELSE 0..MaxChain

\* how the changesets of one run end: those of the existing prefix are not
\* applied and nothing is applied after the first error, so these entries
\* are fixed
ApplyPlans(r, total) ==
    LET start == ExistingPrefix(r, Chain(total), 1, 0).existing_prefix + 1
        raises(how) == how \in {"refused", "conflict"}
        stopped == \/ TreeDirty(r)
                   \/ ExistingPrefix(r, Chain(total), 1, 0).raised # NoError
    IN  {applies \in [1..total -> ApplyOutcomes] :
            \A i \in 1..total :
                (stopped \/ i < start \/ \E j \in start..(i - 1) : raises(applies[j]))
                    => applies[i] = "commit"}

\* one run of create-chain on a plan of total changesets
CreateChain ==
    \E total \in Totals(repo) :
      \E applies \in ApplyPlans(repo, total) :
        LET res == create_chain(repo, total, applies)
        IN  /\ repo' = res.repo
            /\ cmd' = [op |-> "create_chain", total |-> total,
                       prefix |-> ExistingPrefix(repo, Chain(total), 1, 0).existing_prefix,
                       merged |-> 0, raised |-> res.raised, detail |-> res.detail]
            /\ ChangesetUnchanged


\* runs of create-chain, one after the other
NextChain == CreateChain

ChainSpec == InitChain /\ [][NextChain]_vars

\* unique_temp_branch: the prefix and the time of day
unique_temp_branch(prefix) == prefix \o <<"-", "T">>

TempCompare == unique_temp_branch(<<"c">>)

TempValidate == unique_temp_branch(<<"v">>)

\* the commits that carry changes (a merge commit made by --no-ff does not)
Content(head) == {c \in Commits(head) : c[1] # "merge"}

\* each side has changes the other lacks: only then can a merge conflict
Diverged(ours, theirs) ==
    /\ Content(ours) \ Content(theirs) # {}
    /\ Content(theirs) \ Content(ours) # {}

\* the commits of a selection of seq, in seq's order
RECURSIVE Only(_, _)
Only(seq, keep) ==
    IF seq = <<>> THEN <<>>
    ELSE (IF Head(seq) \in keep THEN <<Head(seq)>> ELSE <<>>) \o Only(Tail(seq), keep)

\* git merge --no-ff --no-edit name into the current branch: a merge commit
\* on top of both histories, or conflicts left in the index
Merge(r, name, idx, how) ==
    LET ours == r.heads[r.current]
        theirs == r.heads[name]
    IN  IF how = "conflict" /\ Diverged(ours, theirs)
        THEN Raised([r EXCEPT !.unmerged = TRUE], "merge", name)
        ELSE Returned([r EXCEPT !.heads[r.current] =
                 ours \o Only(theirs, Commits(theirs) \ Commits(ours))
                      \o <<<<"merge", idx>>>>])

MergeOutcomes == {"clean", "conflict"}

TestOutcomes == {"pass", "fail"}

\* the finally clause of compare_chain and validate_chain
RestoreAndDelete(r, original, temp_branch) ==
    LET back == Checkout(r, original)
    IN  IF back.raised # NoError
        THEN back
        ELSE Returned(delete_branch(back.repo, temp_branch))

\* the try block of compare_chain: every chain branch is merged in turn
RECURSIVE CompareLoop(_, _, _, _)
CompareLoop(r, chain, idx, merges) ==
    IF idx > Len(chain)
    THEN Returned(r)
    ELSE LET merged == Merge(r, chain[idx], idx, merges[idx])
         IN  IF merged.raised # NoError
             THEN merged
             ELSE CompareLoop(merged.repo, chain, idx + 1, merges)

\* the body of a command that works on a temporary branch cut from base:
\* the try block ran as tried, then the finally clause, then checkout_restore
OnTempBranch(original, temp_branch, tried) ==
    LET cleaned == Latest(tried, RestoreAndDelete(tried.repo, original, temp_branch))
    IN  Latest(cleaned, checkout_restore_exit(cleaned.repo, original))

compare_chain(r, total, merges) ==
    LET chain == Chain(total)
        needed == {BaseBranch, SourceBranch} \cup {chain[i] : i \in 1..total}
        temp_branch == TempCompare
        original == r.current
        tried == CompareLoop(CheckoutB(r, temp_branch, BaseBranch), chain, 1, merges)
    IN  IF TreeDirty(r)
        THEN Raised(r, "dirty", <<>>)
        ELSE IF MissingBranches(r, needed) # {}
        THEN Raised(r, "missing", MissingBranches(r, needed))
        ELSE OnTempBranch(original, temp_branch, tried)

\* the try block of validate_chain: after each merge the tree is clean (the
\* merge committed), then the test command runs
RECURSIVE ValidateLoop(_, _, _, _, _)
ValidateLoop(r, chain, idx, merges, tests) ==
    IF idx > Len(chain)
    THEN Returned(r)
    ELSE LET merged == Merge(r, chain[idx], idx, merges[idx])
         IN  IF merged.raised # NoError
             THEN merged
             ELSE IF tests[idx] = "fail"
             THEN Raised(merged.repo, "tests", idx)
             ELSE ValidateLoop(merged.repo, chain, idx + 1, merges, tests)

validate_chain(r, total, has_test_cmd, merges, tests) ==
    LET chain == Chain(total)
        needed == {BaseBranch, SourceBranch} \cup {chain[i] : i \in 1..total}
        temp_branch == TempValidate
        original == r.current
        tried == ValidateLoop(CheckoutB(r, temp_branch, BaseBranch), chain, 1,
                              merges, tests)
    IN  IF ~has_test_cmd
        THEN Raised(r, "no test command", <<>>)
        ELSE IF TreeDirty(r)
        THEN Raised(r, "dirty", <<>>)
        ELSE IF MissingBranches(r, needed) # {}
        THEN Raised(r, "missing", MissingBranches(r, needed))
        ELSE OnTempBranch(original, temp_branch, tried)

\* how the merges and the test runs of one command end; nothing runs after
\* the first error or in a command that stops before its loop, so the
\* entries that are never looked at are fixed
RunPlans(r, total, runs_tests) ==
    LET needed == {BaseBranch, SourceBranch} \cup {Chain(total)[i] : i \in 1..total}
        stopped == TreeDirty(r) \/ MissingBranches(r, needed) # {}
    IN  {plan \in [1..total -> MergeOutcomes \X TestOutcomes] :
            \A i \in 1..total :
                /\ (stopped \/ \E j \in 1..(i - 1) : plan[j] # <<"clean", "pass">>)
                      => plan[i] = <<"clean", "pass">>
                /\ ~runs_tests => plan[i][2] = "pass"}

\* one run of compare on a plan of total changesets
CompareChain ==
    \E total \in Totals(repo) :
      \E plan \in RunPlans(repo, total, FALSE) :
        LET res == compare_chain(repo, total, [i \in 1..total |-> plan[i][1]])
        IN  /\ repo' = res.repo
            /\ cmd' = [op |-> "compare_chain", total |-> total, prefix |-> 0,
                       merged |-> 0, raised |-> res.raised, detail |-> res.detail]
            /\ ChangesetUnchanged

\* one run of validate-chain on a plan of total changesets
ValidateChain ==
    \E has_test_cmd \in BOOLEAN :
      \E total \in IF has_test_cmd THEN Totals(repo) ELSE {MaxChain} :
      \E plan \in RunPlans(repo, total, has_test_cmd) :
        LET res == validate_chain(repo, total, has_test_cmd,
                                  [i \in 1..total |-> plan[i][1]],
                                  [i \in 1..total |-> plan[i][2]])
        IN  /\ repo' = res.repo
            /\ cmd' = [op |-> "validate_chain", total |-> total, prefix |-> 0,
                       merged |-> 0, raised |-> res.raised, detail |-> res.detail]
            /\ ChangesetUnchanged

\* compare and validate-chain are run on the chains create-chain leaves
NextCompare == CreateChain \/ CompareChain \/ ValidateChain

CompareSpec == InitChain /\ [][NextCompare]_vars

(***************************************************************************)
(* Downstream propagation: propagate.py                                    *)
(***************************************************************************)

TypeError == "TypeError"

\* what a call evaluates to: a value, or the exception it raises
Value(v) == [raised |-> NoError, value |-> v]

\* branch_name_for and base_for_changeset called with one argument more
\* than they have parameters
TooManyArguments == [raised |-> TypeError, value |-> <<>>]

downstream_base_after_merge(base_branch, source_branch, total, merged_index, index) ==
    IF merged_index = 0
    THEN IF index = 1 THEN Value(base_branch) ELSE TooManyArguments
    ELSE IF index = merged_index + 1
    THEN IF merged_index = 1 THEN Value(base_branch) ELSE TooManyArguments
    ELSE TooManyArguments

\* the chain is built by one call per branch; no call, no error
_ensure_chain_exists(r, source, total) ==
    IF total >= 1 THEN TooManyArguments ELSE Value(<<>>)

\* git rebase new_base on the current branch: its own commits replayed on
\* top of new_base, or a conflict that leaves the rebase in progress
Rebase(r, new_base, how) ==
    LET ours == r.heads[r.current]
        onto == r.heads[new_base]
    IN  IF how = "conflict" /\ Diverged(ours, onto)
        THEN Raised([r EXCEPT !.unmerged = TRUE], "rebase", new_base)
        ELSE Returned([r EXCEPT !.heads[r.current] =
                 onto \o Only(ours, Commits(ours) \ Commits(onto))])

\* git merge --ff-only, and --no-ff --no-edit when the current branch is
\* not an ancestor of merged_head
LocalMerge(r, merged_head, idx, how) ==
    IF Commits(r.heads[r.current]) \subseteq Commits(r.heads[merged_head])
    THEN Returned([r EXCEPT !.heads[r.current] = r.heads[merged_head]])
    ELSE Merge(r, merged_head, idx, how)

\* the rebase loop; done lists the rebases made so far as <<name, new_base>>
RECURSIVE PropagateLoop(_, _, _, _, _, _, _)
PropagateLoop(r, chain, idx, total, merged_index, how, done) ==
    IF idx > total
    THEN [repo |-> r, raised |-> NoError, detail |-> done]
    ELSE IF idx <= merged_index
    THEN PropagateLoop(r, chain, idx + 1, total, merged_index, how, done)
    ELSE LET name == chain[idx]
             new_base == downstream_base_after_merge(BaseBranch, SourceBranch, total,
                                                     merged_index, idx)
             out == Checkout(r, name)
             rebased == Rebase(out.repo, new_base.value, how)
         IN  IF new_base.raised # NoError
             THEN Raised(r, new_base.raised, <<>>)
             ELSE IF out.raised # NoError
             THEN out
             ELSE IF rebased.raised # NoError
             THEN rebased
             ELSE PropagateLoop(rebased.repo, chain, idx + 1, total, merged_index, how,
                                Append(done, <<name, new_base.value>>))

\* propagate_downstream without dry_run, push and update_pr_bases
propagate_downstream(r, total, merged_index, skip_local_merge, how) ==
    LET chain == _ensure_chain_exists(r, SourceBranch, total)
        merged_head == IF merged_index >= 1 THEN TooManyArguments ELSE Value(<<>>)
        merged_base == IF merged_index >= 1 THEN TooManyArguments ELSE Value(BaseBranch)
        original == r.current
        on_base == Checkout(r, merged_base.value)
        merged == IF merged_index >= 1 /\ ~skip_local_merge
                  THEN IF on_base.raised # NoError
                       THEN on_base
                       ELSE LocalMerge(on_base.repo, merged_head.value, merged_index, how)
                  ELSE Returned(r)
        start_index == IF merged_index = 0 THEN 1 ELSE merged_index + 1
        looped == IF merged.raised # NoError
                  THEN merged
                  ELSE PropagateLoop(merged.repo, chain.value, start_index, total,
                                     merged_index, how, <<>>)
    IN  IF TreeDirty(r)
        THEN Raised(r, "dirty", <<>>)
        ELSE IF merged_index < 0 \/ merged_index > total
        THEN Raised(r, "range", <<>>)
        ELSE IF chain.raised # NoError
        THEN Raised(r, chain.raised, <<>>)
        ELSE IF merged_head.raised # NoError
        THEN Raised(r, merged_head.raised, <<>>)
        ELSE IF merged_base.raised # NoError
        THEN Raised(r, merged_base.raised, <<>>)
        ELSE Latest(looped, checkout_restore_exit(looped.repo, original))

\* the values of an option of propagate: all of them for a run that gets to
\* its git commands, one for a run that stops before
PropagateOptions(r, total, merged_index, values) ==
    IF ~TreeDirty(r) /\ merged_index \in 0..total /\ total >= 1
    THEN values
    ELSE {CHOOSE v \in values : TRUE}

\* one run of propagate on a plan of total changesets
PropagateDownstream ==
    \E total \in Totals(repo) :
      \E merged_index \in (0 - 1)..(total + 1) :
      \E skip_local_merge \in PropagateOptions(repo, total, merged_index, BOOLEAN),
         how \in PropagateOptions(repo, total, merged_index, MergeOutcomes) :
        LET res == propagate_downstream(repo, total, merged_index, skip_local_merge, how)
        IN  /\ repo' = res.repo
            /\ cmd' = [op |-> "propagate_downstream", total |-> total, prefix |-> 0,
                       merged |-> merged_index, raised |-> res.raised,
                       detail |-> res.detail]
            /\ ChangesetUnchanged

\* propagate is run on the chains create-chain leaves
NextPropagate == CreateChain \/ PropagateDownstream

PropagateSpec == InitChain /\ [][NextPropagate]_vars

----------------------------------------------------------------------------
(* Claims about the branch chain *)

\* branches 1..p of the chain exist and branches p+1..n do not
ContiguousPrefix(r, n, p) ==
    /\ \A i \in 1..p : branch_exists(r, Chain(n)[i])
    /\ \A i \in (p + 1)..n : ~branch_exists(r, Chain(n)[i])

\* branch i was cut from branch i - 1 and carries at most its own commit on top
StartedFromPredecessor(r, n, i) ==
    LET mine == r.heads[Chain(n)[i]]
        before == r.heads[Chain(n)[i - 1]]
    IN  mine \in {before, before \o <<<<"cs", i>>>>}

\* C21: create_chain is append-only. When branches 1..p of the chain exist
\* as a contiguous prefix and the plan has n > p changesets, a run leaves
\* the heads of branches 1..p as they were, creates no branch other than
\* p+1..n, and when it succeeds every branch p+1..n exists and starts from
\* its predecessor.
C21_AppendOnly ==
    [][cmd'.op = "create_chain" =>
        \A p \in 1..MaxChain :
            LET n == cmd'.total
            IN  (n > p /\ ContiguousPrefix(repo, n, p)) =>
                    /\ \A i \in 1..p :
                          repo'.heads[Chain(n)[i]] = repo.heads[Chain(n)[i]]
                    /\ DOMAIN repo'.heads \ DOMAIN repo.heads
                          \subseteq {Chain(n)[i] : i \in (p + 1)..n}
                    /\ cmd'.raised = NoError =>
                          \A i \in (p + 1)..n :
                              /\ branch_exists(repo', Chain(n)[i])
                              /\ StartedFromPredecessor(repo', n, i)]_vars

\* a run that found a prefix of existing branches and appended to it
C21_Witness ==
    /\ cmd.op = "create_chain"
    /\ cmd.raised = NoError
    /\ cmd.prefix >= 1
    /\ cmd.total > cmd.prefix
    /\ \E i \in 1..cmd.prefix : <<"fix", i>> \in Commits(repo.heads[Chain(cmd.total)[i]])


\* C22: compare_chain and validate_chain leave the repository as they found
\* it. Whenever a run that started on a clean tree returns or raises, the
\* temporary branch is gone, the branch that was checked out is current
\* again and the head of the source branch is unchanged.
C22_RepositoryRestored ==
    [][(cmd'.op \in {"compare_chain", "validate_chain"} /\ ~TreeDirty(repo)) =>
          /\ repo'.current = repo.current
          /\ ~branch_exists(repo', TempCompare)
          /\ ~branch_exists(repo', TempValidate)
          /\ repo'.heads[SourceBranch] = repo.heads[SourceBranch]]_vars


----------------------------------------------------------------------------
(* Claims about the parser and the selector addressing *)

\* the lines a file record holds: its header lines, its binary block, then
\* the lines of its hunks in order
FileLines(df) ==
    df.header_lines \o df.binary_lines
        \o Flatten([k \in 1..Len(df.hunks) |-> df.hunks[k].lines])

\* C23: parse_unified_diff is a lossless forward scan. The lines before the
\* first file-boundary line are dropped; the lines from it on, in their
\* order, are exactly the header lines, binary lines and hunk lines of the
\* file records taken in order, each line in one place.
C23_LosslessScan ==
    pc = "parsed" =>
        Flatten([r \in 1..Len(diff_files) |-> FileLines(diff_files[r])])
            = (IF BoundaryIndexes = <<>>
               THEN <<>>
               ELSE SubSeq(InputLines, BoundaryIndexes[1], Len(InputLines)))

\* text ahead of the first file, then a file with a hunk and a binary file
C23_Witness ==
    /\ pc = "parsed"
    /\ BoundaryIndexes # <<>>
    /\ BoundaryIndexes[1] > 1
    /\ Len(diff_files) = 2
    /\ diff_files[1].hunks # <<>>
    /\ diff_files[2].is_binary


\* the selector at position i is one of those the resolver takes for record k
MatchedTo(i, k) ==
    LET matched == _selectors_for_file(selectors, diff_files[k])
    IN  \E j \in 1..Len(matched) : matched[j] = i

\* the old and the new path of a record, whichever it has
PathsOf(df) == {p \in {df.old_path, df.new_path} : Truthy(p)}

\* the label of a record: its new path, else its old path, else "<unknown>"
DisplayLabel(df) ==
    IF Truthy(df.new_path) THEN df.new_path
    ELSE IF Truthy(df.old_path) THEN df.old_path
    ELSE <<"<", "u", "n", "k", "n", "o", "w", "n", ">">>

\* the "old -> new" form of a renamed record, none for any other record
ArrowLabels(df) ==
    IF Truthy(df.old_path) /\ Truthy(df.new_path) /\ df.old_path # df.new_path
    THEN {ArrowLabel(df.old_path, df.new_path)}
    ELSE {}

\* C24 as stated: a selector matches a file record exactly when its file
\* equals the record's old path, its new path or its "old -> new" label.
C24_ArrowLabelAddresses ==
    pc = "done" =>
        \A i \in 1..Len(selectors), k \in 1..Len(diff_files) :
            MatchedTo(i, k) <=>
                selectors[i].file \in PathsOf(diff_files[k]) \cup ArrowLabels(diff_files[k])

\* C24 as amended: a selector matches a file record exactly when its file
\* equals the record's old path, its new path or its display label (the new
\* path, else the old path, else "<unknown>"); no glob or prefix of a path
\* matches. A selector whose file is none of these for any record is never
\* part of a successful selection, and the "not found" error names it.
C24_ExactPathAddresses ==
    pc = "done" =>
        /\ \A i \in 1..Len(selectors), k \in 1..Len(diff_files) :
              MatchedTo(i, k) <=>
                  selectors[i].file \in PathsOf(diff_files[k]) \cup {DisplayLabel(diff_files[k])}
        /\ \A i \in 1..Len(selectors) :
              (\A k \in 1..Len(diff_files) :
                    selectors[i].file \notin PathsOf(diff_files[k]) \cup {DisplayLabel(diff_files[k])})
                  => /\ ~outcome.ok
                     /\ ErrorKind = "selector file(s) not found in diff"
                            => selectors[i].file \in ErrorNames

\* a rename addressed by its "old -> new" label: the selector is not found
C24_Witness ==
    /\ pc = "done"
    /\ Len(diff_files) = 1
    /\ Len(selectors) = 1
    /\ selectors[1].file \in ArrowLabels(diff_files[1])
    /\ FailedWith("selector file(s) not found in diff", {selectors[1].file})


\* the record was added (git gave its old side as the null device)
IsAdded(df) == \E j \in 1..Len(df.header_lines) : df.header_lines[j] = OLD_NULL

\* the record was removed (git gave its new side as the null device)
IsRemoved(df) == \E j \in 1..Len(df.header_lines) : df.header_lines[j] = NEW_NULL

\* C25: an added file is represented with an absent old path, a removed
\* file with an absent new path, a renamed file with distinct paths, and
\* every file has a path a selector can name.
C25_NullSideAbsent ==
    pc = "parsed" =>
        \A r \in 1..Len(diff_files) :
            /\ IsAdded(diff_files[r]) => diff_files[r].old_path = None
            /\ IsRemoved(diff_files[r]) => diff_files[r].new_path = None
            /\ (IsAdded(diff_files[r]) \/ IsRemoved(diff_files[r]))
                  => PathsOf(diff_files[r]) # {}

(***************************************************************************)
(* Claims about the order of the errors                                    *)
(***************************************************************************)

\* the file records whose selectors raise when the record is reached
Raising == {k \in Files : FileRaises(k)}

FirstRaising == CHOOSE k \in Raising : \A other \in Raising : k <= other

ScopeErrors == {"does not match include_paths", "is excluded by exclude_paths"}

HunkErrors ==
    {"matched no hunks", "occurrence exceeds matches", "matched multiple hunks",
     "requires all hunks"}

\* the error is the one record k raises: its kind by the order of the checks
\* made on a record, and the name in it one of the record's own
DecidedBy(k) ==
    LET df == diff_files[k]
    IN  /\ ~outcome.ok
        /\ ErrorNames \subseteq PathsOf(df) \cup {_file_label(df)}
        /\ IF df.is_binary THEN ErrorKind = "is binary"
           ELSE IF df.hunks = <<>> THEN ErrorKind = "no hunks available to select"
           ELSE IF ~InScope(k) THEN ErrorKind \in ScopeErrors
           ELSE ErrorKind \in HunkErrors

\* C26: errors come in a fixed precedence. The first file record, in diff
\* order, whose selectors raise decides the error; on a record the binary
\* check comes before the no-hunks check, and the scope check before the
\* candidates of a selector, so a record out of scope whose selector matches
\* no hunk reports the scope error; "selector file(s) not found in diff" is
\* reported only when no record raised.
C26_ErrorPrecedence ==
    (pc = "done" /\ selectors # <<>>) =>
        /\ Raising # {} => DecidedBy(FirstRaising)
        /\ ErrorKind = "selector file(s) not found in diff" => Raising = {}

\* a record out of scope whose selector matches no hunk is the first to
\* raise, a later record would raise too, and the scope error is reported
C26_Witness ==
    /\ pc = "done"
    /\ selectors # <<>>
    /\ \E k \in Raising :
          /\ k = FirstRaising
          /\ ~diff_files[k].is_binary
          /\ diff_files[k].hunks # <<>>
          /\ ~InScope(k)
          /\ \E i \in Sels : Targets(i, k) /\ ~AllMode(k) /\ Matches(i, k) = <<>>
          /\ \E later \in Raising : later > k /\ diff_files[later].is_binary
    /\ ErrorKind \in ScopeErrors

(***************************************************************************)
(* Claims about bare selectors                                             *)
(***************************************************************************)

C27_WitnessOneHunk ==
    /\ Succeeded
    /\ allow_partial_files
    /\ Len(selectors) = 1
    /\ Bare(1)
    /\ \E k \in Files : Targets(1, k) /\ Len(diff_files[k].hunks) = 1

(***************************************************************************)
(* Claims about failed runs of create_chain                                *)
(***************************************************************************)

\* every chain branch of the repository had its changeset applied when it
\* was created
ExistingBranchesApplied ==
    \A k \in 1..MaxChain :
        branch_exists(repo, branch_name_for(SourceBranch, k)) => k \in repo.applied

\* a run of create_chain that returns leaves a chain all of whose changesets
\* were applied: it took no branch into the finished prefix whose changeset
\* never was
FinishedChainApplied ==
    (cmd.op = "create_chain" /\ cmd.raised = NoError) =>
        \A k \in 1..cmd.total : k \in repo.applied

\* C28: after any sequence of create_chain runs, failed ones included, every
\* chain branch that exists had its changeset applied when it was created;
\* when applying changeset k fails, branch k does not stay behind for a later
\* run to reuse as part of the finished prefix without applying changeset k.
C28_FailedBranchNotReused == ExistingBranchesApplied /\ FinishedChainApplied

(***************************************************************************)
(* Claims about gaps in the chain                                          *)
(***************************************************************************)

ExistsInChain(r, k) == branch_exists(r, branch_name_for(SourceBranch, k))

\* the chain branches of a plan of total changesets that r lacks although a
\* later one exists
Gaps(r, total) ==
    {i \in 1..total : ~ExistsInChain(r, i) /\ \E j \in (i + 1)..total : ExistsInChain(r, j)}

FirstGap(r, total) == CHOOSE i \in Gaps(r, total) : \A other \in Gaps(r, total) : i <= other

\* C29: create_chain rejects a chain with a gap. When a chain branch exists
\* while an earlier one does not, the run raises and leaves every branch,
\* the checked-out branch and the recorded state as they were; on a clean
\* tree the error is the gap error, naming the existing branch found and the
\* first missing one before it.
C29_GapRejected ==
    [][(cmd'.op = "create_chain" /\ Gaps(repo, cmd'.total) # {}) =>
          /\ cmd'.raised # NoError
          /\ repo' = repo
          /\ ~TreeDirty(repo) =>
                /\ cmd'.raised = "gap"
                /\ cmd'.detail[2] = branch_name_for(SourceBranch, FirstGap(repo, cmd'.total))
                /\ \E j \in (FirstGap(repo, cmd'.total) + 1)..cmd'.total :
                      /\ ExistsInChain(repo, j)
                      /\ cmd'.detail[1] = branch_name_for(SourceBranch, j)]_vars

\* C29 witness: the first branch exists, the second is missing and the
\* third exists; the run was rejected for the second
C29_Witness ==
    /\ cmd.op = "create_chain"
    /\ cmd.raised = "gap"
    /\ cmd.total = 3
    /\ ExistsInChain(repo, 1)
    /\ ~ExistsInChain(repo, 2)
    /\ ExistsInChain(repo, 3)
    /\ cmd.detail = <<branch_name_for(SourceBranch, 3), branch_name_for(SourceBranch, 2)>>

(***************************************************************************)
(* Claims about downstream propagation                                     *)
(***************************************************************************)

\* the base branch i of the chain is rebased onto after changeset m merged
ExpectedBase(m, i) ==
    IF i = 1 \/ (i = m + 1 /\ m = 1) THEN BaseBranch
    ELSE IF i = m + 1 /\ m > 1 THEN branch_name_for(SourceBranch, m - 1)
    ELSE branch_name_for(SourceBranch, i - 1)

\* the rebases of the branches m+1..total, in ascending order
ExpectedRebases(m, total) ==
    [n \in 1..(total - m) |->
        <<branch_name_for(SourceBranch, m + n), ExpectedBase(m, m + n)>>]

\* C30: propagate_downstream with merged index m in 0..total, on a clean
\* tree holding the whole chain, fails only when git reports a conflict, and
\* when it returns it has rebased exactly the branches m+1..total, in
\* ascending order, each onto the base downstream_base_after_merge gives it;
\* a merged index outside 0..total is an error and changes nothing.
C30_DownstreamRebased ==
    [][(cmd'.op = "propagate_downstream" /\ ~TreeDirty(repo)) =>
          IF cmd'.merged \in 0..cmd'.total
          THEN MissingBranches(repo, {Chain(cmd'.total)[i] : i \in 1..cmd'.total}) = {} =>
                  /\ cmd'.raised \in {NoError, "rebase", "merge"}
                  /\ cmd'.raised = NoError =>
                        cmd'.detail = ExpectedRebases(cmd'.merged, cmd'.total)
          ELSE cmd'.raised = "range" /\ repo' = repo]_vars

====
